---------------------------- MODULE Spec2Model ----------------------------
(***************************************************************************)
(* IR capture, framing, decoding and transmit engine of raspberry-mcp:     *)
(*   mcp_server/services/ir_listener_manager.py  (IRListenerManager)       *)
(*   mcp_server/utils/ir_event_controls.py       (ir_send and encoders)    *)
(*                                                                         *)
(* Python values: None is the string "None"; a pigpio level (an int) is    *)
(* written as its decimal string "0" / "1", so that it stays distinct from *)
(* the str objects 'low' / 'high' / 'mark' / 'space' it is compared with.  *)
(* Times are microseconds.                                                 *)
(***************************************************************************)
EXTENDS Integers, Sequences, FiniteSets, TLC

VARIABLES
    \* ---- IRListenerManager fields
    is_listening,        \* self._is_listening
    callback,            \* self._callback is registered with pigpio
    ir_events,           \* self._ir_events
    recent_signals,      \* self._recent_signals
    current_signal,      \* self._current_signal
    last_tick,           \* self._last_tick
    last_level,          \* self._last_level
    last_signal_time,    \* self._last_signal_time
    signal_counter,      \* self._signal_counter
    completion_timer,    \* self._completion_timer: NoTimer or a timer id
    enable_signal_matching, \* self._enable_signal_matching
    signal_lock,         \* holder of self._signal_lock: "free", "cb", "main", "timer"
    \* ---- threads of the listener
    timers,              \* threading.Timer objects still able to act: id -> [st, deadline]
    next_timer,          \* next Timer object identity
    cb_pc,               \* position of the pigpio callback thread in _gpio_callback
    cb_edge,             \* (level, tick) of the edge being handled
    main_pc,             \* position of the event-loop thread in start/stop_listening
    seal_pc,             \* position of the timer thread inside _finish_current_signal
    \* ---- environment of the listener
    now,                 \* time.time(), microseconds
    edges,               \* edges delivered so far
    line_level,          \* level of the sense pin
    calls,               \* calls made on the event-loop thread so far
    script,              \* edge gaps still to be fed (scripted scenarios)
    \* ---- observations
    observed,            \* what the last reader call returned
    last_append_at,      \* time of the last pulse append
    last_seal,           \* what the last seal did
    skipped,             \* a fired timer found pulses younger than the silence window
    pigpiod_up,          \* the pigpio daemon accepts connections
    \* ---- ir_send coroutines and the output pin
    tx,                  \* per call: its arguments, position and counters
    pin_duty,            \* last duty cycle commanded on TX_PIN
    pin_owner,           \* the call and the kind of the last command on TX_PIN
    nec_in,              \* input of the encode/decode round trip
    devices,             \* contents of the device registry file devices.json
    sample,              \* input of an analysis: pulses and two sealings
    trim_slice           \* the list built by the slice of line 323, not yet bound

lvars == <<is_listening, callback, ir_events, recent_signals, current_signal,
           last_tick, last_level, last_signal_time, signal_counter,
           completion_timer, enable_signal_matching, signal_lock>>
thvars == <<timers, next_timer, cb_pc, cb_edge, main_pc, seal_pc>>
envvars == <<now, edges, line_level, calls, script, pigpiod_up>>
obsvars == <<observed, last_append_at, last_seal, skipped>>
txvars == <<tx, pin_duty, pin_owner>>
vars == <<lvars, thvars, envvars, obsvars, txvars, nec_in, devices, sample, trim_slice>>

None == "None"
\* a decoder's "return None"
NoResult == [protocol |-> None]
\* self._last_tick is None (a tick is the pair <<high, low>> of 16-bit halves)
NoTick == <<0 - 1, 0>>
\* self._completion_timer is None (Timer objects are numbered from 1)
NoTimer == 0

----------------------------------------------------------------------------
(* Program constants *)

PIN == 27
signal_timeout_ms == 200
max_events == 1000
NOISE_FLOOR_US == 50

signal_timeout_us == signal_timeout_ms * 1000

----------------------------------------------------------------------------
(* Bounds of the model *)

MaxEdges == 3          \* edges delivered in one behaviour of Spec
MaxTime == 400000      \* the clock stops advancing here
MaxCalls == 3          \* start/stop/clear calls in one behaviour of Spec
TimeStep == 100000     \* granularity of the clock between edges
NoiseGap == 10         \* an edge this soon after the last one is noise
PulseGap == 600        \* an edge this long after the last one is a pulse
MaxFaults == 2         \* GPIO calls that raise during one call of ir_send
MaxSenders == 2        \* calls of ir_send that overlap
StorePeriod == 300000  \* time between two signals of a filled store
LongHorizon == 600     \* a reader horizon (s) that covers a filled store
StoreEdges == 1        \* edges delivered to a listener with a filled store

----------------------------------------------------------------------------
(* Arithmetic helpers *)

\* no analysis is under study
NoSample == [kind |-> None]

\* devices.json is missing: _load_devices returns {}
NoDevices == [device_key \in {} |-> None]

Min(a, b) == IF a <= b THEN a ELSE b

RECURSIVE Pow2(_)
Pow2(n) == IF n = 0 THEN 1 ELSE 2 * Pow2(n - 1)

\* bit i of n (n >> i) & 1
Bit(n, i) == (n \div Pow2(i)) % 2

RECURSIVE BitXor(_, _)
BitXor(a, b) ==
    IF a = 0 THEN b
    ELSE IF b = 0 THEN a
    ELSE (((a % 2) + (b % 2)) % 2) + (2 * BitXor(a \div 2, b \div 2))

RECURSIVE SumDur(_)
SumDur(td) == IF td = <<>> THEN 0 ELSE td[1][2] + SumDur(Tail(td))

Take(s, n) == SubSeq(s, 1, Min(n, Len(s)))

\* Python round(x / g) * g for integers x, g (ties go to the even quotient)
RoundTo(x, g) ==
    LET q == x \div g
        r == x % g
    IN  IF 2 * r < g THEN q * g
        ELSE IF 2 * r > g THEN (q + 1) * g
        ELSE IF q % 2 = 0 THEN q * g ELSE (q + 1) * g

RECURSIVE HexDigits(_, _)
\* format(n, '0<w>X') as the sequence of its hexadecimal digit values
HexDigits(n, w) ==
    IF n < 16 /\ w <= 1 THEN <<n>>
    ELSE Append(HexDigits(n \div 16, IF w > 1 THEN w - 1 ELSE 1), n % 16)

\* bit k of int(s, 16), (code >> k) & 1, for s a sequence of hexadecimal
\* digit values (the most significant digit first)
HexBit(ds, k) ==
    IF (k \div 4) >= Len(ds) THEN 0
    ELSE Bit(ds[Len(ds) - (k \div 4)], k % 4)

RECURSIVE TupleHash(_)
\* hash(tuple(xs)): a deterministic function of the contents (stand-in for
\* CPython's tuple hash, of which only the determinism is used)
TupleHash(xs) ==
    IF xs = <<>> THEN 7
    ELSE ((31 * TupleHash(SubSeq(xs, 1, Len(xs) - 1))) + xs[Len(xs)]) % 65536

----------------------------------------------------------------------------
(* Protocol decoders: IRListenerManager._decode_nec, ._analyze_signal *)

RECURSIVE NecBits(_, _, _)
\* the loop of _decode_nec from 0-based index i up to (not including) stop
NecBits(td, i, stop) ==
    IF i >= stop \/ i + 1 >= Len(td) THEN <<>>
    ELSE LET low_pulse == td[i + 1][2]
             high_pulse == td[i + 2][2]
         IN  IF 300 <= low_pulse /\ low_pulse <= 800
             THEN IF 300 <= high_pulse /\ high_pulse <= 800
                  THEN <<0>> \o NecBits(td, i + 2, stop)
                  ELSE IF 1200 <= high_pulse /\ high_pulse <= 2200
                       THEN <<1>> \o NecBits(td, i + 2, stop)
                       ELSE <<>>
             ELSE <<>>

RECURSIVE ByteOf(_, _, _)
\* sum of data_bits[off + i] << i for i in k..7 (bits past the end read as 0)
ByteOf(data_bits, off, k) ==
    IF k > 7 THEN 0
    ELSE (IF off + k < Len(data_bits) /\ data_bits[off + k + 1] = 1
          THEN Pow2(k) ELSE 0) + ByteOf(data_bits, off, k + 1)

NecCode(address, command) ==
    HexDigits(address, 2) \o HexDigits(command, 2) \o <<0, 0, 0, 0>>

\* line 438: fewer pulses than this are not looked at
NEC_MIN_PULSES == 34

\* a decoder that takes any frame of which it can read one byte
decode_nec_short(timing_data) ==
    LET data_bits == NecBits(timing_data, 2, Min(66, Len(timing_data) - 1))
    IN  IF Len(data_bits) >= 8
        THEN LET address == ByteOf(data_bits, 0, 0)
                 command == ByteOf(data_bits, 8, 0)
             IN  [protocol |-> "NEC",
                  address |-> address,
                  command |-> command,
                  code |-> NecCode(address, command),
                  bits_decoded |-> Len(data_bits),
                  verified |-> TRUE,
                  raw_timing_data |-> timing_data]
        ELSE NoResult

decode_nec(timing_data) ==
    IF Len(timing_data) < NEC_MIN_PULSES THEN NoResult
    ELSE LET data_bits == NecBits(timing_data, 2, Min(66, Len(timing_data) - 1))
         IN  IF Len(data_bits) >= 16
             THEN LET address == ByteOf(data_bits, 0, 0)
                      command == ByteOf(data_bits, 8, 0)
                  IN  [protocol |-> "NEC",
                       address |-> address,
                       command |-> command,
                       code |-> NecCode(address, command),
                       bits_decoded |-> Len(data_bits),
                       verified |-> TRUE,
                       raw_timing_data |-> timing_data]
             ELSE NoResult

RECURSIVE Normalized(_, _)
\* the list `normalized` of the fallback: first 24 pulses rounded to 25 us,
\* the first 12 of them entered twice (i is the 0-based index of td[1])
Normalized(td, i) ==
    IF td = <<>> \/ i >= 24 THEN <<>>
    ELSE LET n == RoundTo(td[1][2], 25)
         IN  (IF i < 12 THEN <<n, n>> ELSE <<n>>) \o Normalized(Tail(td), i + 1)

StateSequence(td) ==
    [i \in 1..Min(24, Len(td)) |-> IF td[i][1] = "high" THEN 1 ELSE 0]

\* the analysis keeping the rounded durations in place of the captured pulses
NormalizedTimingOnly(timing_data) == Take(Normalized(timing_data, 0), 12)

\* line 433: 'raw_timing_data': timing_data, the list the event holds too
RawTimingData(timing_data) == timing_data

GenericAnalysis(timing_data, signal_number, t) ==
    LET total_duration == SumDur(timing_data)
        normalized == Normalized(timing_data, 0)
        timing_hash == TupleHash(normalized) % 65536
        state_hash == TupleHash(StateSequence(timing_data)) % 65536
        length_hash == Len(timing_data) % 256
        duration_hash == (total_duration \div 1000) % 256
        signal_hash == signal_number % 256
        time_hash == t % 65536
        low16 == BitXor(BitXor(BitXor(BitXor(state_hash, length_hash * 256),
                     duration_hash), signal_hash * 256), time_hash)
        code_hash == <<timing_hash, low16 % 65536>>
    IN  [protocol |-> "Generic",
         code |-> HexDigits(code_hash[1], 4) \o HexDigits(code_hash[2], 4),
         pulse_count |-> Len(timing_data),
         total_duration_us |-> total_duration,
         normalized_timing |-> Take(normalized, 12),
         fingerprint |-> <<timing_hash, state_hash, length_hash, duration_hash,
                           signal_number, time_hash>>,
         signal_number |-> signal_number,
         generation_timestamp |-> t,
         raw_timing_data |-> RawTimingData(timing_data)]

analyze_signal(timing_data, signal_number, t) ==
    IF timing_data = <<>> THEN [protocol |-> "Empty", code |-> HexDigits(0, 8)]
    ELSE IF SumDur(timing_data) < 1000
         THEN [protocol |-> "Noise", code |-> HexDigits(0, 8)]
    ELSE LET first_low == IF timing_data[1][1] = "low" THEN timing_data[1][2] ELSE 0
             first_high == IF Len(timing_data) > 1 /\ timing_data[2][1] = "high"
                           THEN timing_data[2][2] ELSE 0
             nec_result == IF Len(timing_data) >= 4
                              /\ 7000 <= first_low /\ first_low <= 12000
                              /\ 3000 <= first_high /\ first_high <= 6000
                           THEN decode_nec(timing_data) ELSE NoResult
         IN  IF nec_result.protocol # None THEN nec_result
             ELSE GenericAnalysis(timing_data, signal_number, t)

----------------------------------------------------------------------------
(* Recent-signal cache: _patterns_match, _find_matching_signal,            *)
(* _store_recent_signal                                                    *)

Abs(x) == IF x < 0 THEN 0 - x ELSE x
Max(a, b) == IF a >= b THEN a ELSE b

Normalized50(td) == [i \in 1..Min(20, Len(td)) |-> RoundTo(td[i][2], 50)]

RECURSIVE MatchScan(_, _, _, _, _, _)
\* the loop of _patterns_match from 1-based index i: <<verdict known, matches,
\* significant_pulses>>; the first component is FALSE on the early return
MatchScan(pattern1, pattern2, i, min_length, matches, significant) ==
    IF i > min_length THEN <<TRUE, matches, significant>>
    ELSE LET p1 == pattern1[i]
             p2 == pattern2[i]
         IN  IF p1 < 200 \/ p2 < 200
             THEN MatchScan(pattern1, pattern2, i + 1, min_length, matches, significant)
             ELSE IF 100 * Abs(p1 - p2) <= 15 * Max(p1, p2)
             THEN MatchScan(pattern1, pattern2, i + 1, min_length, matches + 1,
                            significant + 1)
             ELSE IF 10 * Abs(p1 - p2) > 5 * Max(p1, p2)
             THEN <<FALSE, matches, significant + 1>>
             ELSE MatchScan(pattern1, pattern2, i + 1, min_length, matches,
                            significant + 1)

patterns_match(pattern1, pattern2) ==
    IF Abs(Len(pattern1) - Len(pattern2)) > 2 THEN FALSE
    ELSE LET min_length == Min(Len(pattern1), Len(pattern2))
         IN  IF min_length < 8 THEN FALSE
             ELSE LET r == MatchScan(pattern1, pattern2, 1, min_length, 0, 0)
                  IN  /\ r[1]
                      /\ r[3] >= 6
                      /\ 100 * r[2] >= 90 * r[3]

RECURSIVE FirstMatch(_, _, _)
FirstMatch(recents, normalized, t) ==
    IF recents = <<>> THEN NoResult
    ELSE IF /\ patterns_match(normalized, recents[1].normalized)
            /\ t - recents[1].timestamp < 5000000
         THEN recents[1].analysis
         ELSE FirstMatch(Tail(recents), normalized, t)

find_matching_signal(recents, timing_data, t) ==
    IF timing_data = <<>> THEN NoResult
    ELSE FirstMatch(SubSeq(recents, Max(1, Len(recents) - 2), Len(recents)),
                    Normalized50(timing_data), t)

store_recent_signal(recents, timing_data, analysis, t) ==
    LET signal_entry == [normalized |-> Normalized50(timing_data),
                         analysis |-> analysis,
                         timestamp |-> t,
                         original_pulse_count |-> Len(timing_data)]
        appended == Append(recents, signal_entry)
        trimmed == IF Len(appended) > 10
                   THEN SubSeq(appended, Len(appended) - 4, Len(appended))
                   ELSE appended
    IN  SelectSeq(trimmed, LAMBDA e : t - e.timestamp < 30000000)

\* analysis.update(matched): keys of matched win, the other keys stay
DictUpdate(d, m) ==
    [k \in DOMAIN d \cup DOMAIN m |-> IF k \in DOMAIN m THEN m[k] ELSE d[k]]

----------------------------------------------------------------------------
(* threading.Timer objects.  A timer is "created" (constructed), "armed"    *)
(* (started, waiting for its interval) or "fired" (its function was called  *)
(* and runs _complete_signal_sync).  cancel() before the interval elapsed   *)
(* ends the timer for good; after it, cancel() changes nothing.             *)

TimerCancel(ts, h) ==
    IF h \in DOMAIN ts /\ ts[h].st \in {"created", "armed"}
    THEN [i \in DOMAIN ts \ {h} |-> ts[i]]
    ELSE ts

TimerDrop(ts, h) == [i \in DOMAIN ts \ {h} |-> ts[i]]

TimerStart(ts, h, t) ==
    IF h \in DOMAIN ts /\ ts[h].st = "created"
    THEN [ts EXCEPT ![h] = [st |-> "armed", deadline |-> t + signal_timeout_us]]
    ELSE ts

ArmedTimers == {i \in DOMAIN timers : timers[i].st = "armed"}

----------------------------------------------------------------------------
(* Pulse clock: pigpio's 32-bit microsecond tick *)

\* A 32-bit tick is kept as <<high, low>>, its two 16-bit halves: tick =
\* high * 65536 + low.  The counter starts 500 us before it wraps.
InitialTick == <<65535, 65036>>

\* the tick t microseconds after InitialTick, modulo 2^32
HwTick(t) ==
    LET low == InitialTick[2] + (t % 65536)
        high == InitialTick[1] + (t \div 65536) + (low \div 65536)
    IN  <<high % 65536, low % 65536>>

\* pigpio.tickDiff, which _tick_diff calls whenever pigpio is importable:
\* (tick2 - tick1) modulo 2^32
tick_diff(tick1, tick2) ==
    LET low == tick2[2] - tick1[2]
        borrow == IF low < 0 THEN 1 ELSE 0
        high == (tick2[1] - tick1[1] - borrow) % 65536
    IN  (high * 65536) + ((low + 65536) % 65536)

----------------------------------------------------------------------------
(* IRListenerManager._gpio_callback, on the pigpio callback thread *)

\* pigpio calls the registered callback for an edge that comes `gap` us after
\* the previous one (lines 185-191, up to the lock); `rest` is what is left
\* of a scripted edge sequence
Edge(gap, rest) ==
    /\ callback
    /\ cb_pc = "idle"
    /\ now + gap <= MaxTime
    /\ now' = now + gap
    /\ line_level' = (IF line_level = "1" THEN "0" ELSE "1")
    /\ cb_edge' = <<line_level', HwTick(now')>>
    /\ cb_pc' = "enter"
    /\ edges' = edges + 1
    /\ script' = rest
    /\ UNCHANGED <<lvars, timers, next_timer, main_pc, seal_pc, calls,
                   pigpiod_up, obsvars, txvars, nec_in, devices, sample, trim_slice>>

EdgeArrives(gap) == Edge(gap, script)

\* the callback recording the tick and the level of an edge it filters out
CbAppendNoiseMovesTick ==
    /\ cb_pc = "enter"
    /\ signal_lock = "free"
    /\ LET level == cb_edge[1]
           tick == cb_edge[2]
           duration_us == IF last_tick = NoTick THEN 0 ELSE tick_diff(last_tick, tick)
       IN  IF last_tick # NoTick /\ duration_us < NOISE_FLOOR_US
           THEN /\ cb_pc' = "idle"
                /\ last_tick' = tick
                /\ last_level' = level
                /\ UNCHANGED <<is_listening, callback, ir_events, recent_signals,
                               current_signal, last_signal_time, signal_counter,
                               completion_timer, enable_signal_matching,
                               signal_lock, last_append_at>>
           ELSE /\ IF last_tick # NoTick
                   THEN /\ current_signal' = Append(current_signal,
                                                    <<last_level, duration_us>>)
                        /\ last_signal_time' = now
                        /\ last_append_at' = now
                   ELSE UNCHANGED <<current_signal, last_signal_time, last_append_at>>
                /\ last_tick' = tick
                /\ last_level' = level
                /\ signal_lock' = "cb"
                /\ cb_pc' = "cancel"
                /\ UNCHANGED <<is_listening, callback, ir_events, recent_signals,
                               signal_counter, completion_timer,
                               enable_signal_matching>>
    /\ UNCHANGED <<timers, next_timer, cb_edge, main_pc, seal_pc, envvars,
                   observed, last_seal, skipped, txvars, nec_in, devices, sample, trim_slice>>

\* lines 192-219: take the lock, filter noise, append the pulse
CbAppend ==
    /\ cb_pc = "enter"
    /\ signal_lock = "free"
    /\ LET level == cb_edge[1]
           tick == cb_edge[2]
           duration_us == IF last_tick = NoTick THEN 0 ELSE tick_diff(last_tick, tick)
       IN  IF last_tick # NoTick /\ duration_us < NOISE_FLOOR_US
           THEN /\ cb_pc' = "idle"
                /\ UNCHANGED <<lvars, last_append_at>>
           ELSE /\ IF last_tick # NoTick
                   THEN /\ current_signal' = Append(current_signal,
                                                    <<last_level, duration_us>>)
                        /\ last_signal_time' = now
                        /\ last_append_at' = now
                   ELSE UNCHANGED <<current_signal, last_signal_time, last_append_at>>
                /\ last_tick' = tick
                /\ last_level' = level
                /\ signal_lock' = "cb"
                /\ cb_pc' = "cancel"
                /\ UNCHANGED <<is_listening, callback, ir_events, recent_signals,
                               signal_counter, completion_timer,
                               enable_signal_matching>>
    /\ UNCHANGED <<timers, next_timer, cb_edge, main_pc, seal_pc, envvars,
                   observed, last_seal, skipped, txvars, nec_in, devices, sample, trim_slice>>

\* lines 221-223: cancel any existing completion timer
CbCancelTimer ==
    /\ cb_pc = "cancel"
    /\ timers' = IF completion_timer # NoTimer
                 THEN TimerCancel(timers, completion_timer) ELSE timers
    /\ cb_pc' = "create"
    /\ UNCHANGED <<lvars, next_timer, cb_edge, main_pc, seal_pc, envvars,
                   obsvars, txvars, nec_in, devices, sample, trim_slice>>

\* lines 226-229: self._completion_timer = threading.Timer(...)
CbCreateTimer ==
    /\ cb_pc = "create"
    /\ timers' = [i \in DOMAIN timers \cup {next_timer} |->
                    IF i = next_timer THEN [st |-> "created", deadline |-> 0]
                    ELSE timers[i]]
    /\ completion_timer' = next_timer
    /\ next_timer' = next_timer + 1
    /\ cb_pc' = "start"
    /\ UNCHANGED <<is_listening, callback, ir_events, recent_signals,
                   current_signal, last_tick, last_level, last_signal_time,
                   signal_counter, enable_signal_matching, signal_lock,
                   cb_edge, main_pc, seal_pc, envvars, obsvars, txvars, nec_in, devices, sample, trim_slice>>

\* line 230: self._completion_timer.start(), then the lock is released; with
\* the attribute set to None meanwhile the call raises AttributeError
CbStartTimer ==
    /\ cb_pc = "start"
    /\ IF completion_timer = NoTimer
       THEN /\ cb_pc' = "except"
            /\ timers' = [i \in {j \in DOMAIN timers : timers[j].st # "created"}
                            |-> timers[i]]
       ELSE /\ cb_pc' = "idle"
            /\ timers' = TimerStart(timers, completion_timer, now)
    /\ signal_lock' = "free"
    /\ UNCHANGED <<is_listening, callback, ir_events, recent_signals,
                   current_signal, last_tick, last_level, last_signal_time,
                   signal_counter, completion_timer, enable_signal_matching,
                   next_timer, cb_edge, main_pc, seal_pc, envvars, obsvars,
                   txvars, nec_in, devices, sample, trim_slice>>

\* lines 232-238: the except branch resets the state under the lock
CbExcept ==
    /\ cb_pc = "except"
    /\ signal_lock = "free"
    /\ current_signal' = <<>>
    /\ last_tick' = NoTick
    /\ last_level' = None
    /\ cb_pc' = "idle"
    /\ UNCHANGED <<is_listening, callback, ir_events, recent_signals,
                   last_signal_time, signal_counter, completion_timer,
                   enable_signal_matching, signal_lock, timers, next_timer,
                   cb_edge, main_pc, seal_pc, envvars, obsvars, txvars, nec_in, devices, sample, trim_slice>>

----------------------------------------------------------------------------
(* IRListenerManager._complete_signal_sync and ._finish_current_signal, on  *)
(* the thread of the timer that fired                                      *)

\* threading.Timer.run: the interval elapsed without cancel(), the function
\* is called (line 240-242, up to the lock)
TimerFires(id) ==
    /\ id \in DOMAIN timers
    /\ timers[id].st = "armed"
    /\ now >= timers[id].deadline
    /\ timers' = [timers EXCEPT ![id].st = "fired"]
    /\ UNCHANGED <<lvars, next_timer, cb_pc, cb_edge, main_pc, seal_pc, envvars,
                   obsvars, txvars, nec_in, devices, sample, trim_slice>>

\* two other readings of the silence test, used to show that the properties
\* below depend on the comparison the code makes
TimeoutElapsedStrict(t, last) == t - last > signal_timeout_us

TimeoutElapsedAlways(t, last) == TRUE

\* line 249-251: enough time has passed since the last pulse
TimeoutElapsed(t, last) == t - last >= signal_timeout_us

\* lines 304-314: the event of a signal
MakeEvent(signal_number, timing_data, analysis, t) ==
    [timestamp |-> t,
     type |-> "ir_signal",
     signal_number |-> signal_number,
     timing_data |-> timing_data,
     total_duration_us |-> SumDur(timing_data),
     pulse_count |-> Len(timing_data),
     analysis |-> analysis]

\* the seal taking over the analysis of a matching earlier signal whatever
\* the setting
SealAnalysisMatchesAlways(timing_data, signal_number, t) ==
    LET analysis == analyze_signal(timing_data, signal_number, t)
        matched == find_matching_signal(recent_signals, timing_data, t)
    IN  IF matched.protocol # None
        THEN DictUpdate(DictUpdate(analysis, matched),
                        [matched_previous |-> TRUE])
        ELSE analysis

\* lines 271-289: the analysis stored with the event, and the cache after it
SealAnalysis(timing_data, signal_number, t) ==
    LET analysis == analyze_signal(timing_data, signal_number, t)
        matched == find_matching_signal(recent_signals, timing_data, t)
    IN  IF enable_signal_matching /\ matched.protocol # None
        THEN DictUpdate(DictUpdate(analysis, matched),
                        [matched_previous |-> TRUE])
        ELSE analysis

SealRecent(timing_data, signal_number, t) ==
    LET analysis == analyze_signal(timing_data, signal_number, t)
        matched == find_matching_signal(recent_signals, timing_data, t)
    IN  IF enable_signal_matching /\ matched.protocol # None
        THEN recent_signals
        ELSE store_recent_signal(recent_signals, timing_data, analysis, t)

\* the timer thread sealing without the test of line 244: whether or not the
\* listener listens, whatever the buffer holds
TimerSealsStopped(id) ==
    /\ id \in DOMAIN timers
    /\ timers[id].st = "fired"
    /\ signal_lock = "free"
    /\ seal_pc = "idle"
    /\ IF TimeoutElapsed(now, last_signal_time)
       THEN LET signal_number == signal_counter + 1
                analysis == SealAnalysis(current_signal, signal_number, now)
            IN  /\ signal_counter' = signal_number
                /\ ir_events' = Append(ir_events,
                       MakeEvent(signal_number, current_signal, analysis, now))
                /\ recent_signals' = SealRecent(current_signal, signal_number, now)
                /\ signal_lock' = "timer"
                /\ seal_pc' = "trim"
                /\ last_seal' = [pulses |-> current_signal,
                                 counter_before |-> signal_counter,
                                 events_before |-> Len(ir_events),
                                 edges |-> edges,
                                 at |-> now]
                /\ skipped' = skipped
       ELSE /\ skipped' = (skipped \/ (current_signal # <<>> /\ is_listening))
            /\ UNCHANGED <<signal_counter, ir_events, recent_signals, signal_lock,
                           seal_pc, last_seal>>
    /\ timers' = TimerDrop(timers, id)
    /\ UNCHANGED <<is_listening, callback, current_signal, last_tick, last_level,
                   last_signal_time, completion_timer, enable_signal_matching,
                   next_timer, cb_pc, cb_edge, main_pc, envvars, observed,
                   last_append_at, txvars, nec_in, devices, sample, trim_slice>>

\* the timer thread sealing whatever the buffer holds, pulses or none
TimerSealsEmpty(id) ==
    /\ id \in DOMAIN timers
    /\ timers[id].st = "fired"
    /\ signal_lock = "free"
    /\ seal_pc = "idle"
    /\ IF is_listening
          /\ TimeoutElapsed(now, last_signal_time)
       THEN LET signal_number == signal_counter + 1
                analysis == SealAnalysis(current_signal, signal_number, now)
            IN  /\ signal_counter' = signal_number
                /\ ir_events' = Append(ir_events,
                       MakeEvent(signal_number, current_signal, analysis, now))
                /\ recent_signals' = SealRecent(current_signal, signal_number, now)
                /\ signal_lock' = "timer"
                /\ seal_pc' = "trim"
                /\ last_seal' = [pulses |-> current_signal,
                                 counter_before |-> signal_counter,
                                 events_before |-> Len(ir_events),
                                 edges |-> edges,
                                 at |-> now]
                /\ skipped' = skipped
       ELSE /\ skipped' = (skipped \/ (current_signal # <<>> /\ is_listening))
            /\ UNCHANGED <<signal_counter, ir_events, recent_signals, signal_lock,
                           seal_pc, last_seal>>
    /\ timers' = TimerDrop(timers, id)
    /\ UNCHANGED <<is_listening, callback, current_signal, last_tick, last_level,
                   last_signal_time, completion_timer, enable_signal_matching,
                   next_timer, cb_pc, cb_edge, main_pc, envvars, observed,
                   last_append_at, txvars, nec_in, devices, sample, trim_slice>>

\* lines 243-253 and 258-317: the timer thread takes the lock; with pulses
\* buffered, the listener listening and the silence window elapsed it counts,
\* analyses and appends the event
TimerSeals(id) ==
    /\ id \in DOMAIN timers
    /\ timers[id].st = "fired"
    /\ signal_lock = "free"
    /\ seal_pc = "idle"
    /\ IF current_signal # <<>> /\ is_listening
          /\ TimeoutElapsed(now, last_signal_time)
       THEN LET signal_number == signal_counter + 1
                analysis == SealAnalysis(current_signal, signal_number, now)
            IN  /\ signal_counter' = signal_number
                /\ ir_events' = Append(ir_events,
                       MakeEvent(signal_number, current_signal, analysis, now))
                /\ recent_signals' = SealRecent(current_signal, signal_number, now)
                /\ signal_lock' = "timer"
                /\ seal_pc' = "trim"
                /\ last_seal' = [pulses |-> current_signal,
                                 counter_before |-> signal_counter,
                                 events_before |-> Len(ir_events),
                                 edges |-> edges,
                                 at |-> now]
                /\ skipped' = skipped
       ELSE /\ skipped' = (skipped \/ (current_signal # <<>> /\ is_listening))
            /\ UNCHANGED <<signal_counter, ir_events, recent_signals, signal_lock,
                           seal_pc, last_seal>>
    /\ timers' = TimerDrop(timers, id)
    /\ UNCHANGED <<is_listening, callback, current_signal, last_tick, last_level,
                   last_signal_time, completion_timer, enable_signal_matching,
                   next_timer, cb_pc, cb_edge, main_pc, envvars, observed,
                   last_append_at, txvars, nec_in, devices, sample, trim_slice>>

\* removing one event per insert, the eviction the store does not do
TrimOldest(events) ==
    IF Len(events) > max_events THEN Tail(events) ELSE events

\* lines 319-324: more than max_events events, the oldest tenth is removed
TrimEvents(events) ==
    IF Len(events) > max_events
    THEN SubSeq(events, (max_events \div 10) + 1, Len(events))
    ELSE events

\* lines 319-343: trim the store, clear the buffer, release the lock
SealTrim ==
    /\ seal_pc = "trim"
    /\ ir_events' = TrimEvents(ir_events)
    /\ current_signal' = <<>>
    /\ signal_lock' = "free"
    /\ seal_pc' = "idle"
    /\ UNCHANGED <<is_listening, callback, recent_signals, last_tick, last_level,
                   last_signal_time, signal_counter, completion_timer,
                   enable_signal_matching, timers, next_timer, cb_pc, cb_edge,
                   main_pc, envvars, obsvars, txvars, nec_in, devices, sample, trim_slice>>

----------------------------------------------------------------------------
(* IRListenerManager.start_listening / .stop_listening, on the event-loop   *)
(* thread; neither awaits, so they run to completion on that thread but    *)
(* interleave with the callback thread and the timer threads               *)

\* start_listening going on without looking at pi.connected
StartListeningIgnoresDaemon ==
    /\ main_pc = "idle"
    /\ calls < MaxCalls
    /\ calls' = calls + 1
    /\ IF is_listening
       THEN /\ observed' = [op |-> "start_listening", ok |-> TRUE,
                            message |-> "IR listener is already running."]
            /\ main_pc' = "idle"
       ELSE /\ observed' = observed
            /\ main_pc' = "start_clear"
    /\ UNCHANGED <<lvars, timers, next_timer, cb_pc, cb_edge, seal_pc, now, edges,
                   line_level, script, pigpiod_up, last_append_at, last_seal,
                   skipped, txvars, nec_in, devices, sample, trim_slice>>

\* start_listening emptying the store on its early return
StartListeningClears ==
    /\ main_pc = "idle"
    /\ calls < MaxCalls
    /\ calls' = calls + 1
    /\ IF is_listening
       THEN /\ observed' = [op |-> "start_listening", ok |-> TRUE,
                            message |-> "IR listener is already running."]
            /\ main_pc' = "idle"
            /\ ir_events' = <<>>
       ELSE IF ~pigpiod_up
       THEN /\ observed' = [op |-> "start_listening", ok |-> FALSE,
                            message |-> "pigpiod not running"]
            /\ main_pc' = "idle"
            /\ ir_events' = ir_events
       ELSE /\ observed' = observed
            /\ main_pc' = "start_clear"
            /\ ir_events' = ir_events
    /\ UNCHANGED <<is_listening, callback, recent_signals, current_signal,
                   last_tick, last_level, last_signal_time, signal_counter,
                   completion_timer, enable_signal_matching, signal_lock,
                   timers, next_timer, cb_pc, cb_edge, seal_pc, now, edges,
                   line_level, script, pigpiod_up, last_append_at, last_seal,
                   skipped, txvars, nec_in, devices, sample, trim_slice>>

\* lines 84-109: already listening, or the daemon is unreachable, or go on
StartListening ==
    /\ main_pc = "idle"
    /\ calls < MaxCalls
    /\ calls' = calls + 1
    /\ IF is_listening
       THEN /\ observed' = [op |-> "start_listening", ok |-> TRUE,
                            message |-> "IR listener is already running."]
            /\ main_pc' = "idle"
       ELSE IF ~pigpiod_up
       THEN /\ observed' = [op |-> "start_listening", ok |-> FALSE,
                            message |-> "pigpiod not running"]
            /\ main_pc' = "idle"
       ELSE /\ observed' = observed
            /\ main_pc' = "start_clear"
    /\ UNCHANGED <<lvars, timers, next_timer, cb_pc, cb_edge, seal_pc, now, edges,
                   line_level, script, pigpiod_up, last_append_at, last_seal,
                   skipped, txvars, nec_in, devices, sample, trim_slice>>

\* lines 111-113: clear events and recent signals
StartClear ==
    /\ main_pc = "start_clear"
    /\ ir_events' = <<>>
    /\ recent_signals' = <<>>
    /\ main_pc' = "start_reset"
    /\ UNCHANGED <<is_listening, callback, current_signal, last_tick, last_level,
                   last_signal_time, signal_counter, completion_timer,
                   enable_signal_matching, signal_lock, timers, next_timer,
                   cb_pc, cb_edge, seal_pc, envvars, obsvars, txvars, nec_in, devices, sample, trim_slice>>

\* lines 115-121: reset the signal state under the lock
StartReset ==
    /\ main_pc = "start_reset"
    /\ signal_lock = "free"
    /\ current_signal' = <<>>
    /\ last_tick' = NoTick
    /\ last_level' = None
    /\ last_signal_time' = 0
    /\ signal_counter' = 0
    /\ main_pc' = "start_cancel"
    /\ UNCHANGED <<is_listening, callback, ir_events, recent_signals,
                   completion_timer, enable_signal_matching, signal_lock, timers,
                   next_timer, cb_pc, cb_edge, seal_pc, envvars, obsvars, txvars,
                   nec_in, devices, sample, trim_slice>>

\* lines 124-125: if self._completion_timer: self._completion_timer.cancel()
StartCancelTimer ==
    /\ main_pc = "start_cancel"
    /\ IF completion_timer # NoTimer
       THEN /\ timers' = TimerCancel(timers, completion_timer)
            /\ main_pc' = "start_unset"
       ELSE /\ timers' = timers
            /\ main_pc' = "start_register"
    /\ UNCHANGED <<lvars, next_timer, cb_pc, cb_edge, seal_pc, envvars, obsvars,
                   txvars, nec_in, devices, sample, trim_slice>>

\* line 126: self._completion_timer = None
StartUnsetTimer ==
    /\ main_pc = "start_unset"
    /\ completion_timer' = NoTimer
    /\ main_pc' = "start_register"
    /\ UNCHANGED <<is_listening, callback, ir_events, recent_signals,
                   current_signal, last_tick, last_level, last_signal_time,
                   signal_counter, enable_signal_matching, signal_lock, timers,
                   next_timer, cb_pc, cb_edge, seal_pc, envvars, obsvars, txvars,
                   nec_in, devices, sample, trim_slice>>

\* lines 128-136: register the callback, set _is_listening, return success
StartRegister ==
    /\ main_pc = "start_register"
    /\ callback' = TRUE
    /\ is_listening' = TRUE
    /\ observed' = [op |-> "start_listening", ok |-> TRUE,
                    message |-> "IR listener started on GPIO27."]
    /\ main_pc' = "idle"
    /\ UNCHANGED <<ir_events, recent_signals, current_signal, last_tick,
                   last_level, last_signal_time, signal_counter, completion_timer,
                   enable_signal_matching, signal_lock, timers, next_timer, cb_pc,
                   cb_edge, seal_pc, envvars, last_append_at, last_seal, skipped, txvars,
                   nec_in, devices, sample, trim_slice>>

\* stop_listening resetting the signal counter on its early return
StopListeningResets ==
    /\ main_pc = "idle"
    /\ calls < MaxCalls
    /\ calls' = calls + 1
    /\ IF ~is_listening
       THEN /\ observed' = [op |-> "stop_listening", ok |-> TRUE,
                            message |-> "IR listener is not running."]
            /\ main_pc' = "idle"
            /\ signal_counter' = 0
            /\ UNCHANGED is_listening
       ELSE /\ is_listening' = FALSE
            /\ main_pc' = "stop_cancel"
            /\ UNCHANGED <<observed, signal_counter>>
    /\ UNCHANGED <<callback, ir_events, recent_signals, current_signal, last_tick,
                   last_level, last_signal_time, completion_timer,
                   enable_signal_matching, signal_lock, timers, next_timer, cb_pc,
                   cb_edge, seal_pc, now, edges, line_level, script, pigpiod_up,
                   last_append_at, last_seal, skipped, txvars, nec_in, devices, sample, trim_slice>>

\* lines 147-153: not listening: success at once; else _is_listening = False
StopListening ==
    /\ main_pc = "idle"
    /\ calls < MaxCalls
    /\ calls' = calls + 1
    /\ IF ~is_listening
       THEN /\ observed' = [op |-> "stop_listening", ok |-> TRUE,
                            message |-> "IR listener is not running."]
            /\ main_pc' = "idle"
            /\ UNCHANGED is_listening
       ELSE /\ is_listening' = FALSE
            /\ main_pc' = "stop_cancel"
            /\ UNCHANGED observed
    /\ UNCHANGED <<callback, ir_events, recent_signals, current_signal, last_tick,
                   last_level, last_signal_time, signal_counter, completion_timer,
                   enable_signal_matching, signal_lock, timers, next_timer, cb_pc,
                   cb_edge, seal_pc, now, edges, line_level, script, pigpiod_up,
                   last_append_at, last_seal, skipped, txvars, nec_in, devices, sample, trim_slice>>

\* lines 155-157: if self._completion_timer: self._completion_timer.cancel()
StopCancelTimer ==
    /\ main_pc = "stop_cancel"
    /\ IF completion_timer # NoTimer
       THEN /\ timers' = TimerCancel(timers, completion_timer)
            /\ main_pc' = "stop_unset"
       ELSE /\ timers' = timers
            /\ main_pc' = "stop_callback"
    /\ UNCHANGED <<lvars, next_timer, cb_pc, cb_edge, seal_pc, envvars, obsvars,
                   txvars, nec_in, devices, sample, trim_slice>>

\* line 158: self._completion_timer = None
StopUnsetTimer ==
    /\ main_pc = "stop_unset"
    /\ completion_timer' = NoTimer
    /\ main_pc' = "stop_callback"
    /\ UNCHANGED <<is_listening, callback, ir_events, recent_signals,
                   current_signal, last_tick, last_level, last_signal_time,
                   signal_counter, enable_signal_matching, signal_lock, timers,
                   next_timer, cb_pc, cb_edge, seal_pc, envvars, obsvars, txvars,
                   nec_in, devices, sample, trim_slice>>

\* lines 160-168: cancel the callback, disconnect from pigpio
StopCallback ==
    /\ main_pc = "stop_callback"
    /\ callback' = FALSE
    /\ main_pc' = "stop_reset"
    /\ UNCHANGED <<is_listening, ir_events, recent_signals, current_signal,
                   last_tick, last_level, last_signal_time, signal_counter,
                   completion_timer, enable_signal_matching, signal_lock, timers,
                   next_timer, cb_pc, cb_edge, seal_pc, envvars, obsvars, txvars,
                   nec_in, devices, sample, trim_slice>>

\* lines 170-179: reset the state under the lock, return success
StopReset ==
    /\ main_pc = "stop_reset"
    /\ signal_lock = "free"
    /\ current_signal' = <<>>
    /\ last_tick' = NoTick
    /\ last_level' = None
    /\ last_signal_time' = 0
    /\ observed' = [op |-> "stop_listening", ok |-> TRUE,
                    message |-> "IR listener stopped successfully."]
    /\ main_pc' = "idle"
    /\ UNCHANGED <<is_listening, callback, ir_events, recent_signals,
                   signal_counter, completion_timer, enable_signal_matching,
                   signal_lock, timers, next_timer, cb_pc, cb_edge, seal_pc,
                   envvars, last_append_at, last_seal, skipped, txvars, nec_in, devices, sample, trim_slice>>

----------------------------------------------------------------------------
(* Readers and clear_events, on the event-loop thread *)

\* get_recent_events without the cutoff test: every stored event
RecentEventsAll(events, horizon_s, t) == events

\* get_recent_events(horizon_s), lines 590-598: no lock is taken
RecentEvents(events, horizon_s, t) ==
    SelectSeq(events, LAMBDA e : e.timestamp > t - (horizon_s * 1000000))

GetRecentEvents(horizon_s) ==
    /\ main_pc = "idle"
    /\ observed' = [op |-> "get_recent_events", horizon_s |-> horizon_s,
                    events |-> RecentEvents(ir_events, horizon_s, now)]
    /\ UNCHANGED <<lvars, thvars, envvars, last_append_at, last_seal, skipped, txvars,
                   nec_in, devices, sample, trim_slice>>

\* get_listener_status, lines 610-630: no lock is taken
GetListenerStatus ==
    /\ main_pc = "idle"
    /\ observed' = [op |-> "get_listener_status",
                    is_listening |-> is_listening,
                    gpio_pin |-> PIN,
                    total_events |-> Len(ir_events),
                    callback_active |-> callback,
                    completion_timer_active |-> completion_timer # NoTimer,
                    signal_counter |-> signal_counter,
                    current_signal_pulses |-> Len(current_signal),
                    recent_events_1min |-> Len(RecentEvents(ir_events, 60, now)),
                    signal_timeout_ms |-> signal_timeout_ms,
                    max_events_limit |-> max_events]
    /\ UNCHANGED <<lvars, thvars, envvars, last_append_at, last_seal, skipped, txvars,
                   nec_in, devices, sample, trim_slice>>

\* clear_events, lines 600-605: both lists are emptied without the lock.
\* What the call saw is noted: the counter, and whether a seal was under way
ClearEvents ==
    /\ main_pc = "idle"
    /\ calls < MaxCalls
    /\ calls' = calls + 1
    /\ ir_events' = <<>>
    /\ recent_signals' = <<>>
    /\ main_pc' = "clear_counter"
    /\ observed' = [op |-> "clear_events", returned |-> FALSE,
                    events_count |-> Len(ir_events),
                    counter_at_call |-> signal_counter,
                    called_at |-> now,
                    concurrent_seal |-> seal_pc # "idle"]
    /\ UNCHANGED <<is_listening, callback, current_signal, last_tick, last_level,
                   last_signal_time, signal_counter, completion_timer,
                   enable_signal_matching, signal_lock, timers, next_timer,
                   cb_pc, cb_edge, seal_pc, now, edges, line_level, script,
                   pigpiod_up, last_append_at, last_seal, skipped, txvars,
                   nec_in, devices, sample, trim_slice>>

\* clear_events returning without the reset of lines 606-607
ClearCounterKeeps ==
    /\ main_pc = "clear_counter"
    /\ signal_lock = "free"
    /\ main_pc' = "idle"
    /\ observed' = [observed EXCEPT
                       !.returned = TRUE,
                       !.concurrent_seal =
                           @ \/ signal_counter # observed.counter_at_call]
    /\ UNCHANGED <<lvars, timers, next_timer, cb_pc, cb_edge, seal_pc, envvars,
                   last_append_at, last_seal, skipped, txvars, nec_in, devices,
                   sample, trim_slice>>

\* clear_events, lines 606-608: the counter is reset under the lock and the
\* call returns; a seal that counted a signal since the lists were emptied
\* ran concurrently with the call
ClearCounter ==
    /\ main_pc = "clear_counter"
    /\ signal_lock = "free"
    /\ signal_counter' = 0
    /\ main_pc' = "idle"
    /\ observed' = [observed EXCEPT
                       !.returned = TRUE,
                       !.concurrent_seal =
                           @ \/ signal_counter # observed.counter_at_call]
    /\ UNCHANGED <<is_listening, callback, ir_events, recent_signals,
                   current_signal, last_tick, last_level, last_signal_time,
                   completion_timer, enable_signal_matching, signal_lock, timers,
                   next_timer, cb_pc, cb_edge, seal_pc, envvars, last_append_at,
                   last_seal, skipped, txvars, nec_in, devices, sample, trim_slice>>

\* the clock advances by `step` microseconds
Tick(step) ==
    /\ now + step <= MaxTime
    /\ now' = now + step
    /\ UNCHANGED <<lvars, thvars, edges, line_level, calls, script, pigpiod_up,
                   obsvars, txvars, nec_in, devices, sample, trim_slice>>

\* every thread is at rest and every timer that was started has run or was
\* cancelled: nothing is left to happen unless a new edge or call arrives
Quiescent ==
    /\ cb_pc = "idle"
    /\ main_pc = "idle"
    /\ seal_pc = "idle"
    /\ DOMAIN timers = {}

----------------------------------------------------------------------------
(* The listener under every interleaving of its threads *)

InitListener ==
    /\ is_listening = FALSE
    /\ callback = FALSE
    /\ ir_events = <<>>
    /\ recent_signals = <<>>
    /\ current_signal = <<>>
    /\ last_tick = NoTick
    /\ last_level = None
    /\ last_signal_time = 0
    /\ signal_counter = 0
    /\ completion_timer = NoTimer
    /\ enable_signal_matching = FALSE
    /\ signal_lock = "free"
    /\ timers = <<>>
    /\ next_timer = 1
    /\ cb_pc = "idle"
    /\ cb_edge = <<None, NoTick>>
    /\ main_pc = "idle"
    /\ seal_pc = "idle"
    /\ now = 0
    /\ edges = 0
    /\ line_level = "1"
    /\ calls = 0
    /\ observed = [op |-> None]
    /\ last_append_at = 0
    /\ last_seal = [pulses |-> <<>>, counter_before |-> 0, events_before |-> 0,
                    edges |-> 0, at |-> 0]
    /\ skipped = FALSE
    /\ trim_slice = <<>>

InitTx ==
    /\ tx = <<>>
    /\ pin_duty = 0
    /\ pin_owner = [call |-> 0, kind |-> None]

Init ==
    /\ InitListener
    /\ InitTx
    /\ script = <<>>
    /\ pigpiod_up \in BOOLEAN
    /\ nec_in = <<>>
    /\ devices = NoDevices
    /\ sample = NoSample

CallbackThread ==
    \/ /\ edges < MaxEdges
       /\ \E gap \in {NoiseGap, PulseGap} : EdgeArrives(gap)
    \/ CbAppend
    \/ CbCancelTimer
    \/ CbCreateTimer
    \/ CbStartTimer
    \/ CbExcept

TimerThreads ==
    \/ \E id \in DOMAIN timers : TimerFires(id)
    \/ \E id \in DOMAIN timers : TimerSeals(id)
    \/ SealTrim

EventLoopThread ==
    \/ StartListening
    \/ StartClear
    \/ StartReset
    \/ StartCancelTimer
    \/ StartUnsetTimer
    \/ StartRegister
    \/ StopListening
    \/ StopCancelTimer
    \/ StopUnsetTimer
    \/ StopCallback
    \/ StopReset

Next ==
    \/ CallbackThread
    \/ TimerThreads
    \/ EventLoopThread
    \/ Tick(TimeStep)

Spec == Init /\ [][Next]_vars

----------------------------------------------------------------------------
(* Transmit engine: mcp_server/utils/ir_event_controls.py                  *)

TX_PIN == 17
REPEAT_COUNT == 5
DUTY_NORMAL == 200
DUTY_BOOST == 255

\* DUTY_CYCLE = 255 if power_boost else 200
DUTY_CYCLE(power_boost) == IF power_boost THEN DUTY_BOOST ELSE DUTY_NORMAL

\* protocol.lower()
Lower(protocol) ==
    IF protocol = "NEC" THEN "nec"
    ELSE IF protocol = "Generic" THEN "generic"
    ELSE protocol

RECURSIVE NecDataBitsLsb(_, _)
\* a bit loop that reads the code from its least significant bit
NecDataBitsLsb(ds, i) ==
    IF i > 31 THEN <<>>
    ELSE <<<<"mark", 560>>,
           <<"space", IF HexBit(ds, i) = 1 THEN 1690 ELSE 560>>>>
         \o NecDataBitsLsb(ds, i + 1)

\* an encoder that sends the least significant bit first
send_nec_command_lsb(ds) ==
    <<<<"mark", 9000>>, <<"space", 4500>>>> \o NecDataBitsLsb(ds, 0)
        \o <<<<"mark", 560>>>>

RECURSIVE NecDataBits(_, _)
\* the loop of _send_nec_command from i to 31: bit (code >> (31 - i)) & 1,
\* a 560 us mark and a 1690 / 560 us space
NecDataBits(ds, i) ==
    IF i > 31 THEN <<>>
    ELSE <<<<"mark", 560>>,
           <<"space", IF HexBit(ds, 31 - i) = 1 THEN 1690 ELSE 560>>>>
         \o NecDataBits(ds, i + 1)

\* the marks and spaces _send_nec_command sends for int(ds, 16)
send_nec_command(ds) ==
    <<<<"mark", 9000>>, <<"space", 4500>>>> \o NecDataBits(ds, 0)
        \o <<<<"mark", 560>>>>

RECURSIVE SonyDataBits(_, _)
\* the loop of _send_sony_command from i to 11: bit (code >> i) & 1
SonyDataBits(ds, i) ==
    IF i > 11 THEN <<>>
    ELSE <<<<"mark", 600>>,
           <<"space", IF HexBit(ds, i) = 1 THEN 1200 ELSE 600>>>>
         \o SonyDataBits(ds, i + 1)

send_sony_command(ds) ==
    <<<<"mark", 2400>>, <<"space", 1200>>>> \o SonyDataBits(ds, 0)

RECURSIVE TestPulses(_)
TestPulses(n) ==
    IF n = 0 THEN <<>>
    ELSE <<<<"mark", 560>>, <<"space", 1690>>>> \o TestPulses(n - 1)

send_test_burst ==
    <<<<"mark", 9000>>, <<"space", 4500>>>> \o TestPulses(8) \o <<<<"mark", 560>>>>

\* _send_raw_timing: 'low' / 'mark' is a mark, anything else a space; the
\* carrier is switched off at the end without a sleep
send_raw_timing(timing_data) ==
    [i \in 1..Len(timing_data) |->
        <<IF timing_data[i][1] \in {"low", "mark"} THEN "mark" ELSE "space",
          timing_data[i][2]>>] \o <<<<"off", 0>>>>

\* a dispatch in which a code that does not parse is read as 0
TxPlanNoParse(r) ==
    IF Lower(r.protocol) = "generic" /\ r.raw_timing_data # <<>>
    THEN [ok |-> TRUE, frame |-> send_raw_timing(r.raw_timing_data)]
    ELSE IF Lower(r.protocol) = "nec"
    THEN [ok |-> TRUE, frame |-> send_nec_command(r.hex_code.digits)]
    ELSE IF Lower(r.protocol) = "sony"
    THEN [ok |-> TRUE, frame |-> send_sony_command(r.hex_code.digits)]
    ELSE IF r.raw_timing_data # <<>>
    THEN [ok |-> TRUE, frame |-> send_raw_timing(r.raw_timing_data)]
    ELSE [ok |-> TRUE, frame |-> send_test_burst]

\* _send_ir_protocol up to its first await: the frame it is going to send, or
\* ValueError from int(hex_code, 16)
TxPlan(r) ==
    IF Lower(r.protocol) = "generic" /\ r.raw_timing_data # <<>>
    THEN [ok |-> TRUE, frame |-> send_raw_timing(r.raw_timing_data)]
    ELSE IF ~r.hex_code.valid THEN [ok |-> FALSE, frame |-> <<>>]
    ELSE IF Lower(r.protocol) = "nec"
    THEN [ok |-> TRUE, frame |-> send_nec_command(r.hex_code.digits)]
    ELSE IF Lower(r.protocol) = "sony"
    THEN [ok |-> TRUE, frame |-> send_sony_command(r.hex_code.digits)]
    ELSE IF r.raw_timing_data # <<>>
    THEN [ok |-> TRUE, frame |-> send_raw_timing(r.raw_timing_data)]
    ELSE [ok |-> TRUE, frame |-> send_test_burst]

\* a call of ir_send that has not started yet
NewCall(a) ==
    [pc |-> "idle",
     protocol |-> a.protocol,
     hex_code |-> a.hex_code,
     raw_timing_data |-> a.raw_timing_data,
     power_boost |-> a.power_boost,
     attempt |-> 0,
     success_count |-> 0,
     pos |-> 0,
     faults |-> 0,
     carrier_used |-> FALSE,
     midframe_fault |-> FALSE,
     result |-> [success |-> FALSE, message |-> None]]

\* no coroutine is between two awaits: the event loop is free to run another
NoneRunning == \A d \in DOMAIN tx : tx[d].pc \notin {"setup", "attempt", "frame"}

\* lines 206-215 (and 217-228): count the attempt; sleep before the next one,
\* or after the last one return by success_count
AfterAttempt(r, success) ==
    LET r1 == [r EXCEPT !.success_count = @ + (IF success THEN 1 ELSE 0),
                        !.pos = 0]
    IN  IF r1.attempt < REPEAT_COUNT - 1 THEN [r1 EXCEPT !.pc = "gap"]
        ELSE IF r1.success_count = 0
        THEN [r1 EXCEPT !.pc = "done",
                        !.result = [success |-> FALSE,
                                    message |-> "Unsupported protocol or invalid hex code"]]
        ELSE [r1 EXCEPT !.pc = "done",
                        !.result = [success |-> TRUE, message |-> "sent"]]

\* lines 230-236: an exception reaches ir_send: pi.stop(), failure
TxRaise(r) ==
    [r EXCEPT !.pc = "done",
              !.faults = @ + 1,
              !.result = [success |-> FALSE, message |-> "IR send failed"]]

\* lines 174-186: ir_send is called; without the daemon it fails at once
IrSend(c) ==
    /\ tx[c].pc = "idle"
    /\ NoneRunning
    /\ tx' = [tx EXCEPT ![c] =
                IF pigpiod_up THEN [@ EXCEPT !.pc = "setup"]
                ELSE [@ EXCEPT !.pc = "done",
                               !.result = [success |-> FALSE,
                                           message |-> "pigpiod not running"]]]
    /\ UNCHANGED <<lvars, thvars, envvars, obsvars, pin_duty, pin_owner, nec_in, devices, sample, trim_slice>>

\* lines 188-195: output mode, carrier frequency, PWM off
TxSetup(c) ==
    /\ tx[c].pc = "setup"
    /\ pin_duty' = 0
    /\ pin_owner' = [call |-> c, kind |-> "setup"]
    /\ tx' = [tx EXCEPT ![c].pc = "attempt"]
    /\ UNCHANGED <<lvars, thvars, envvars, obsvars, nec_in, devices, sample, trim_slice>>

\* one of the GPIO calls of lines 189-193 raises
TxSetupFault(c) ==
    /\ tx[c].pc = "setup"
    /\ tx[c].faults < MaxFaults
    /\ tx' = [tx EXCEPT ![c] = TxRaise(@)]
    /\ UNCHANGED <<lvars, thvars, envvars, obsvars, pin_duty, pin_owner, nec_in, devices, sample, trim_slice>>

\* lines 198-204: frequency, PWM off, then _send_ir_protocol up to its first
\* GPIO call (or its ValueError, which ends the attempt)
TxAttempt(c) ==
    /\ tx[c].pc = "attempt"
    /\ pin_duty' = 0
    /\ pin_owner' = [call |-> c, kind |-> "setup"]
    /\ tx' = [tx EXCEPT ![c] =
                IF TxPlan(@).ok THEN [@ EXCEPT !.pc = "frame", !.pos = 1]
                ELSE AfterAttempt(@, FALSE)]
    /\ UNCHANGED <<lvars, thvars, envvars, obsvars, nec_in, devices, sample, trim_slice>>

\* line 200 or 201 raises
TxAttemptFault(c) ==
    /\ tx[c].pc = "attempt"
    /\ tx[c].faults < MaxFaults
    /\ tx' = [tx EXCEPT ![c] = TxRaise(@)]
    /\ UNCHANGED <<lvars, thvars, envvars, obsvars, pin_duty, pin_owner, nec_in, devices, sample, trim_slice>>

\* _send_mark / _send_space, lines 148-156: command the duty cycle, then
\* sleep; the closing PWM off of _send_raw_timing (line 83) has no sleep and
\* ends the attempt
TxPulse(c) ==
    /\ tx[c].pc = "frame"
    /\ LET e == TxPlan(tx[c]).frame[tx[c].pos]
           duty == IF e[1] = "mark" THEN DUTY_CYCLE(tx[c].power_boost) ELSE 0
           r == [tx[c] EXCEPT !.carrier_used = @ \/ (duty > 0)]
       IN  /\ pin_duty' = duty
           /\ pin_owner' = [call |-> c, kind |-> e[1]]
           /\ tx' = [tx EXCEPT ![c] =
                        IF e[1] = "off" THEN AfterAttempt(r, TRUE)
                        ELSE [r EXCEPT !.pc = "asleep"]]
    /\ UNCHANGED <<lvars, thvars, envvars, obsvars, nec_in, devices, sample, trim_slice>>

\* pi.set_PWM_dutycycle raises inside the frame: lines 53-54 catch it and
\* _send_ir_protocol returns False
TxPulseFault(c) ==
    /\ tx[c].pc = "frame"
    /\ tx[c].faults < MaxFaults
    /\ LET frame == TxPlan(tx[c]).frame
           mark_on == tx[c].pos > 1 /\ frame[tx[c].pos - 1][1] = "mark"
       IN  tx' = [tx EXCEPT ![c] =
                    AfterAttempt([@ EXCEPT !.faults = @ + 1,
                                           !.midframe_fault = @ \/ mark_on],
                                 FALSE)]
    /\ UNCHANGED <<lvars, thvars, envvars, obsvars, pin_duty, pin_owner, nec_in, devices, sample, trim_slice>>

\* the sleep of a mark or space is over: on to the next one, or the frame
\* is complete and _send_ir_protocol returns True
TxWake(c) ==
    /\ tx[c].pc = "asleep"
    /\ NoneRunning
    /\ tx' = [tx EXCEPT ![c] =
                IF @.pos < Len(TxPlan(@).frame)
                THEN [@ EXCEPT !.pc = "frame", !.pos = @ + 1]
                ELSE AfterAttempt(@, TRUE)]
    /\ UNCHANGED <<lvars, thvars, envvars, obsvars, pin_duty, pin_owner, nec_in, devices, sample, trim_slice>>

\* lines 210-211: the 150 ms between two repeats is over
TxGapWake(c) ==
    /\ tx[c].pc = "gap"
    /\ NoneRunning
    /\ tx' = [tx EXCEPT ![c] = [@ EXCEPT !.pc = "attempt", !.attempt = @ + 1]]
    /\ UNCHANGED <<lvars, thvars, envvars, obsvars, pin_duty, pin_owner, nec_in, devices, sample, trim_slice>>

\* arguments of the calls
HexCodes ==
    {[valid |-> TRUE, digits |-> NecCode(0, 255)],
     [valid |-> FALSE, digits |-> <<>>]}

RawPatterns ==
    {<<>>,
     <<<<"low", 9000>>, <<"high", 4500>>, <<"0", 560>>>>,
     <<<<"mark", 2400>>, <<"space", 600>>, <<"low", 1200>>>>}

TxArgs ==
    [protocol : {"nec", "NEC", "sony", "generic", "rc5"},
     hex_code : HexCodes,
     raw_timing_data : RawPatterns,
     power_boost : BOOLEAN]

\* arguments of two calls that overlap
PairArgs ==
    {[protocol |-> "sony", hex_code |-> [valid |-> TRUE, digits |-> <<10, 9, 0>>],
      raw_timing_data |-> <<>>, power_boost |-> FALSE],
     [protocol |-> "generic", hex_code |-> [valid |-> FALSE, digits |-> <<>>],
      raw_timing_data |-> <<<<"low", 9000>>, <<"high", 4500>>, <<"low", 560>>>>,
      power_boost |-> TRUE]}

TxCoroutine(c) ==
    \/ IrSend(c)
    \/ TxSetup(c)
    \/ TxAttempt(c)
    \/ TxPulse(c)
    \/ TxWake(c)
    \/ TxGapWake(c)

TxFaults(c) ==
    \/ TxSetupFault(c)
    \/ TxAttemptFault(c)
    \/ TxPulseFault(c)

\* one call of ir_send, its GPIO calls failing at most MaxFaults times
InitSend ==
    /\ InitListener
    /\ pigpiod_up \in BOOLEAN
    /\ script = <<>>
    /\ nec_in = <<>>
    /\ devices = NoDevices
    /\ sample = NoSample
    /\ tx \in [{1} -> {NewCall(a) : a \in TxArgs}]
    /\ pin_duty \in {0, DUTY_NORMAL}
    /\ pin_owner = [call |-> 0, kind |-> None]

NextSend ==
    \/ TxCoroutine(1)
    \/ TxFaults(1)

SpecSend == InitSend /\ [][NextSend]_vars

\* two calls of ir_send as two coroutines of one event loop
InitSendPair ==
    /\ InitListener
    /\ pigpiod_up = TRUE
    /\ script = <<>>
    /\ nec_in = <<>>
    /\ devices = NoDevices
    /\ sample = NoSample
    /\ tx \in [1..MaxSenders -> {NewCall(a) : a \in PairArgs}]
    /\ pin_duty = 0
    /\ pin_owner = [call |-> 0, kind |-> None]

NextSendPair ==
    \/ \E c \in DOMAIN tx : IrSend(c)
    \/ \E c \in DOMAIN tx : TxSetup(c)
    \/ \E c \in DOMAIN tx : TxAttempt(c)
    \/ \E c \in DOMAIN tx : TxPulse(c)
    \/ \E c \in DOMAIN tx : TxWake(c)
    \/ \E c \in DOMAIN tx : TxGapWake(c)

SpecSendPair == InitSendPair /\ [][NextSendPair]_vars

----------------------------------------------------------------------------
(* The NEC encoder read back by the NEC decoder *)

Bytes == 0..255

\* what the receiver captures of a sent frame: a mark is a 'low' pulse of the
\* sense line, a space a 'high' one
EmittedPulses(frame) ==
    [i \in 1..Len(frame) |->
        <<IF frame[i][1] = "mark" THEN "low" ELSE "high", frame[i][2]>>]

\* the decoder reported (address, command) with code NecCode(address,
\* command); that code is sent by _send_nec_command and decoded again
NecRoundTrip ==
    /\ observed.op = None
    /\ nec_in # <<>>
    /\ observed' =
          [op |-> "nec_round_trip",
           address |-> nec_in[1],
           command |-> nec_in[2],
           decoded |-> decode_nec(EmittedPulses(
                           send_nec_command(NecCode(nec_in[1], nec_in[2]))))]
    /\ UNCHANGED <<lvars, thvars, envvars, last_append_at, last_seal, skipped,
                   txvars, nec_in, devices, sample, trim_slice>>

InitRoundTrip ==
    /\ InitListener
    /\ InitTx
    /\ script = <<>>
    /\ pigpiod_up = FALSE
    /\ nec_in \in Bytes \X Bytes
    /\ devices = NoDevices
    /\ sample = NoSample

SpecRoundTrip == InitRoundTrip /\ [][NecRoundTrip]_vars

----------------------------------------------------------------------------
(* One NEC frame fed to a started listener, then silence *)

RECURSIVE NecFrameBits(_, _)
\* the 32 bit gaps of a standard NEC frame: the bytes in `bytes`, each sent
\* least significant bit first, a 560 us mark and a 1690 / 560 us space per bit
NecFrameBits(bytes, i) ==
    IF i >= 8 * Len(bytes) THEN <<>>
    ELSE <<560, IF Bit(bytes[(i \div 8) + 1], i % 8) = 1 THEN 1690 ELSE 560>>
         \o NecFrameBits(bytes, i + 1)

\* the gaps between the edges of the frame for (address, command) with the
\* inverse bytes: leading edge, 9000 / 4500 us header, 32 bits, stop mark
NecFrameGaps(address, command) ==
    <<PulseGap, 9000, 4500>>
        \o NecFrameBits(<<address, 255 - address, command, 255 - command>>, 0)
        \o <<560>>

\* the next edge of the script arrives
FeedEdge ==
    /\ script # <<>>
    /\ Edge(Head(script), Tail(script))

\* the line stays silent after the last edge of the script
SilenceTick ==
    /\ script = <<>>
    /\ Tick(TimeStep)

\* get_recent_events(60) once the silence window after the frame has elapsed
\* and the timer has run
ReadAfterSilence ==
    /\ script = <<>>
    /\ edges > 0
    /\ Quiescent
    /\ now - last_append_at >= signal_timeout_us
    /\ GetRecentEvents(60)

InitScenario ==
    /\ InitListener
    /\ InitTx
    /\ pigpiod_up = TRUE
    /\ nec_in = <<0, 255>>
    /\ devices = NoDevices
    /\ sample = NoSample
    /\ script = NecFrameGaps(nec_in[1], nec_in[2])

NextScenario ==
    \/ StartListening
    \/ StartClear
    \/ StartReset
    \/ StartCancelTimer
    \/ StartRegister
    \/ FeedEdge
    \/ CbAppend
    \/ CbCancelTimer
    \/ CbCreateTimer
    \/ CbStartTimer
    \/ \E id \in DOMAIN timers : TimerFires(id)
    \/ \E id \in DOMAIN timers : TimerSeals(id)
    \/ SealTrim
    \/ SilenceTick
    \/ ReadAfterSilence

SpecScenario == InitScenario /\ [][NextScenario]_vars

----------------------------------------------------------------------------
(* The event store at its bound *)

\* lines 328-340: the analysis raised; the raw signal is stored with a Raw
\* analysis and without the trim of lines 319-324
RawEvent(signal_number, timing_data, t) ==
    [timestamp |-> t,
     type |-> "ir_signal",
     signal_number |-> signal_number,
     timing_data |-> timing_data,
     total_duration_us |-> SumDur(timing_data),
     pulse_count |-> Len(timing_data),
     analysis |-> [protocol |-> "Raw",
                   code |-> [raw |-> HexDigits(signal_number, 4)],
                   error |-> "exception"]]

\* lines 243-253, 258-270 and 328-340: as TimerSeals, but the try block
\* raises before the event is built
TimerSealsRaw(id) ==
    /\ id \in DOMAIN timers
    /\ timers[id].st = "fired"
    /\ signal_lock = "free"
    /\ seal_pc = "idle"
    /\ current_signal # <<>>
    /\ is_listening
    /\ TimeoutElapsed(now, last_signal_time)
    /\ signal_counter' = signal_counter + 1
    /\ ir_events' = Append(ir_events,
                           RawEvent(signal_counter + 1, current_signal, now))
    /\ signal_lock' = "timer"
    /\ seal_pc' = "raw"
    /\ last_seal' = [pulses |-> current_signal,
                     counter_before |-> signal_counter,
                     events_before |-> Len(ir_events),
                     edges |-> edges,
                     at |-> now]
    /\ timers' = TimerDrop(timers, id)
    /\ UNCHANGED <<is_listening, callback, recent_signals, current_signal,
                   last_tick, last_level, last_signal_time, completion_timer,
                   enable_signal_matching, next_timer, cb_pc, cb_edge, main_pc,
                   envvars, observed, last_append_at, skipped, txvars, nec_in, devices, sample, trim_slice>>

\* the except branch leaving the buffer as it is
SealClearKeepsBuffer ==
    /\ seal_pc = "raw"
    /\ current_signal' = current_signal
    /\ signal_lock' = "free"
    /\ seal_pc' = "idle"
    /\ UNCHANGED <<is_listening, callback, ir_events, recent_signals, last_tick,
                   last_level, last_signal_time, signal_counter, completion_timer,
                   enable_signal_matching, timers, next_timer, cb_pc, cb_edge,
                   main_pc, envvars, obsvars, txvars, nec_in, devices, sample, trim_slice>>

\* line 343 after the except branch: clear the buffer, release the lock
SealClear ==
    /\ seal_pc = "raw"
    /\ current_signal' = <<>>
    /\ signal_lock' = "free"
    /\ seal_pc' = "idle"
    /\ UNCHANGED <<is_listening, callback, ir_events, recent_signals, last_tick,
                   last_level, last_signal_time, signal_counter, completion_timer,
                   enable_signal_matching, timers, next_timer, cb_pc, cb_edge,
                   main_pc, envvars, obsvars, txvars, nec_in, devices, sample, trim_slice>>

\* A listener that has sealed n signals since it was started, one edge every
\* StorePeriod us, each sealed after the silence window: signal i is the one
\* pulse between edge i and edge i + 1.  The n-th seal ended at time 0.
PastLevel(i) == IF i % 2 = 1 THEN "0" ELSE "1"

PastSignal(i) == <<<<PastLevel(i), StorePeriod>>>>

PastTime(i, n) == (i - n) * StorePeriod

PastEvent(i, n) ==
    MakeEvent(i, PastSignal(i),
              analyze_signal(PastSignal(i), i, PastTime(i, n)), PastTime(i, n))

PastEvents(n) == [i \in 1..n |-> PastEvent(i, n)]

RECURSIVE PastRecent(_, _)
\* the cache after seal k of n: it was cut to its last 5 entries whenever it
\* reached 11, that is at every seal k with k % 6 = 5 from the 11th on
PastRecent(k, n) ==
    LET entry(i) == [normalized |-> Normalized50(PastSignal(i)),
                     analysis |-> analyze_signal(PastSignal(i), i, PastTime(i, n)),
                     timestamp |-> PastTime(i, n),
                     original_pulse_count |-> 1]
    IN  IF k >= 11 /\ k % 6 = 5 THEN [j \in 1..5 |-> entry(k - 5 + j)]
        ELSE store_recent_signal(PastRecent(k - 1, n), PastSignal(k),
                 analyze_signal(PastSignal(k), k, PastTime(k, n)), PastTime(k, n))

InitStore ==
    /\ \E n \in {max_events - 1, max_events} :
          /\ ir_events = PastEvents(n)
          /\ recent_signals = PastRecent(n, n)
          /\ signal_counter = n
          /\ last_level = PastLevel(n + 1)
          /\ line_level = PastLevel(n + 1)
          /\ last_seal = [pulses |-> PastSignal(n), counter_before |-> n - 1,
                          events_before |-> n - 1, edges |-> 0, at |-> 0]
    /\ is_listening = TRUE
    /\ callback = TRUE
    /\ current_signal = <<>>
    /\ last_tick = HwTick(0 - signal_timeout_us)
    /\ last_signal_time = 0 - signal_timeout_us
    /\ last_append_at = 0 - signal_timeout_us
    /\ completion_timer = 1
    /\ next_timer = 2
    /\ timers = <<>>
    /\ enable_signal_matching = FALSE
    /\ signal_lock = "free"
    /\ cb_pc = "idle"
    /\ cb_edge = <<None, NoTick>>
    /\ main_pc = "idle"
    /\ seal_pc = "idle"
    /\ now = 0
    /\ edges = 0
    /\ calls = 0
    /\ script = <<>>
    /\ observed = [op |-> None]
    /\ skipped = FALSE
    /\ pigpiod_up = TRUE
    /\ nec_in = <<>>
    /\ devices = NoDevices
    /\ sample = NoSample
    /\ trim_slice = <<>>
    /\ InitTx

\* the callback and timer threads sealing signals without a failure
NextEvict ==
    \/ /\ edges < StoreEdges
       /\ \E gap \in {NoiseGap, PulseGap} : EdgeArrives(gap)
    \/ CbAppend
    \/ CbCancelTimer
    \/ CbCreateTimer
    \/ CbStartTimer
    \/ \E id \in DOMAIN timers : TimerFires(id)
    \/ \E id \in DOMAIN timers : TimerSeals(id)
    \/ SealTrim
    \/ Tick(TimeStep)

SpecEvict == InitStore /\ [][NextEvict]_vars

\* the same with readers on the event-loop thread and with analyses that raise
NextStore ==
    \/ /\ edges < StoreEdges
       /\ EdgeArrives(PulseGap)
    \/ CbAppend
    \/ CbCancelTimer
    \/ CbCreateTimer
    \/ CbStartTimer
    \/ \E id \in DOMAIN timers : TimerFires(id)
    \/ \E id \in DOMAIN timers : TimerSeals(id)
    \/ SealTrim
    \/ \E id \in DOMAIN timers : TimerSealsRaw(id)
    \/ SealClear
    \/ Tick(TimeStep)
    \/ \E horizon_s \in {60, LongHorizon} : GetRecentEvents(horizon_s)
    \/ GetListenerStatus

SpecStore == InitStore /\ [][NextStore]_vars

----------------------------------------------------------------------------
(* Claims about the framer *)

\* a seal step appends exactly one event holding exactly the buffered pulses
\* and counts it; the step after it empties the buffer; and while the listener
\* is listening nothing else empties a buffer that holds pulses
SealStoresBuffer ==
    /\ (signal_counter' # signal_counter /\ signal_counter' # 0) =>
          /\ signal_counter' = signal_counter + 1
          /\ Len(ir_events') = Len(ir_events) + 1
          /\ SubSeq(ir_events', 1, Len(ir_events)) = ir_events
          /\ ir_events'[Len(ir_events')].timing_data = current_signal
          /\ ir_events'[Len(ir_events')].signal_number = signal_counter'
          /\ current_signal # <<>>
          /\ seal_pc' = "trim"
    /\ (seal_pc = "trim" /\ seal_pc' = "idle") =>
          /\ current_signal' = <<>>
          /\ signal_counter' = signal_counter
    /\ (is_listening /\ is_listening' /\ current_signal # <<>>
            /\ current_signal' # current_signal) =>
          \/ /\ seal_pc = "trim"
             /\ last_seal.pulses = current_signal
             /\ current_signal' = <<>>
          \/ /\ Len(current_signal') = Len(current_signal) + 1
             /\ SubSeq(current_signal', 1, Len(current_signal)) = current_signal

C3_SealOnlyAfterSilence ==
    /\ [][signal_counter' = signal_counter + 1 =>
             now - last_append_at >= signal_timeout_us]_vars
    /\ [](\A i \in 1..(Len(ir_events) - 1) :
             ir_events[i + 1].timestamp - ir_events[i].timestamp
                 >= signal_timeout_us)

\* a timer that had fired ran after a newer pulse was appended, did not seal,
\* and the pulses are still buffered
C3_Witness ==
    /\ skipped
    /\ is_listening
    /\ current_signal # <<>>
    /\ now - last_append_at < signal_timeout_us

\* C4: at most one silence timer is armed in every reachable state.
C4_AtMostOneTimerArmed == Cardinality(ArmedTimers) <= 1

----------------------------------------------------------------------------
(* Claims about the store, the decoders and the transmit engine *)

\* C1: with a session started and an empty store, after the edges of one NEC
\* frame for address 0x00, command 0xFF and the silence window,
\* get_recent_events(60) returns exactly one event whose analysis is NEC with
\* address 0, command 255, verified.
C1_NecFrameIsDecoded ==
    observed.op = "get_recent_events" =>
        /\ Len(observed.events) = 1
        /\ observed.events[1].analysis.protocol = "NEC"
        /\ observed.events[1].analysis.address = 0
        /\ observed.events[1].analysis.command = 255
        /\ observed.events[1].analysis.verified

\* C5: no reader (get_recent_events, get_listener_status) ever sees more than
\* max_events events, and the store at rest never holds more, also when a
\* signal was stored through the failure path.
C5_ReadersSeeBoundedStore ==
    /\ observed.op = "get_recent_events" => Len(observed.events) <= max_events
    /\ observed.op = "get_listener_status" => observed.total_events <= max_events
    /\ seal_pc = "idle" => Len(ir_events) <= max_events

C7_NecRoundTrip ==
    observed.op = "nec_round_trip" =>
        /\ observed.decoded.protocol = "NEC"
        /\ observed.decoded.address = observed.address
        /\ observed.decoded.command = observed.command
        /\ observed.decoded.verified

\* a call with a protocol other than nec, sony, generic and no raw timing
Unsupported(r) ==
    /\ Lower(r.protocol) \notin {"nec", "sony", "generic"}
    /\ r.raw_timing_data = <<>>

\* C8: ir_send with an unsupported protocol and no raw timing data returns
\* failure, and never commands a non-zero duty cycle on the output pin.
C8_UnsupportedProtocolFails ==
    \A c \in DOMAIN tx :
        Unsupported(tx[c]) =>
            /\ ~tx[c].carrier_used
            /\ tx[c].pc = "done" => ~tx[c].result.success

\* C9: when a GPIO call raised in the middle of a frame, after a mark was
\* started, the last duty cycle commanded before a failure return is 0.
C9_CarrierOffOnFailure ==
    \A c \in DOMAIN tx :
        (tx[c].pc = "done" /\ ~tx[c].result.success /\ tx[c].midframe_fault)
            => pin_duty = 0

\* the call is between the first and the last pulse of a frame
InsideFrame(r) ==
    /\ r.pc = "asleep"
    /\ LET frame == TxPlan(r).frame
       IN  r.pos < (IF frame[Len(frame)][1] = "off" THEN Len(frame) - 1
                    ELSE Len(frame))

\* C10: two concurrent calls of ir_send never interleave on the output pin:
\* while one call is inside a frame, the pin is not commanded a mark or a
\* space by the other.
C10_FramesDoNotInterleave ==
    \A c \in DOMAIN tx :
        InsideFrame(tx[c]) =>
            ~(pin_owner.call # c /\ pin_owner.kind \in {"mark", "space"})

----------------------------------------------------------------------------
(* Claims about replay of raw timing *)

\* every pulse of the raw timing is marked low, mark, high or space
MarkedPulses(raw) ==
    \A i \in 1..Len(raw) : raw[i][1] \in {"low", "mark", "high", "space"}

\* C11: whenever raw timing data is attached to a transmit request, whatever
\* the protocol name, the interval a frame commands at position pos is the
\* stored pulse at position pos: same duration, carrier on for low or mark,
\* carrier off for high or space; nothing but the closing carrier-off follows
\* the last stored pulse.
C11_RawTimingReplayedVerbatim ==
    \A c \in DOMAIN tx :
        LET r == tx[c]
            raw == r.raw_timing_data
            e == TxPlan(r).frame[r.pos]
        IN  (raw # <<>> /\ MarkedPulses(raw) /\ r.pc \in {"frame", "asleep"}) =>
                /\ r.pos <= Len(raw) + 1
                /\ r.pos = Len(raw) + 1 => e[1] = "off"
                /\ r.pos <= Len(raw) =>
                      /\ e[2] = raw[r.pos][2]
                      /\ (e[1] = "mark") <=> (raw[r.pos][1] \in {"low", "mark"})
                      /\ (e[1] = "space") <=> (raw[r.pos][1] \in {"high", "space"})

----------------------------------------------------------------------------
(* Device registry and the tools that write and read it:                   *)
(* mcp_server/utils/device_registry.py,                                    *)
(* mcp_server/tools/register_devices/submit_mappings.py,                   *)
(* mcp_server/tools/ir_control/send_ir_command.py                          *)

\* time between two button presses of a learning session, in microseconds
LearnPeriod == 1000000

\* d.get(key, default)
Get(d, key, default) == IF key \in DOMAIN d THEN d[key] ELSE default

\* device_registry.py lines 81-97: what is stored for one operation, the
\* operation_data of save_device_mapping
OperationData(event) ==
    LET analysis == event.analysis
    IN  [code |-> Get(analysis, "code", "unknown"),
         protocol |-> Get(analysis, "protocol", "unknown"),
         address |-> Get(analysis, "address", None),
         command |-> Get(analysis, "command", None),
         verified |-> Get(analysis, "verified", FALSE),
         timing_data |-> event.timing_data,
         signal_number |-> event.signal_number,
         pulse_count |-> event.pulse_count,
         total_duration_us |-> event.total_duration_us,
         pattern_type |-> Get(analysis, "pattern_type", None),
         captured_at |-> event.timestamp]

\* the last pair of zip(all_operations, ir_events) with this operation: a
\* later assignment to the same key replaces an earlier one
LastIndex(all_operations, n, operation) ==
    CHOOSE i \in 1..n :
        /\ all_operations[i] = operation
        /\ \A j \in (i + 1)..n : all_operations[j] # operation

\* device_registry.py lines 48-110: the file after save_device_mapping; the
\* keys "<operation>_details" of the mapping are the field details
save_device_mapping(devs, device_key, required, optional, events, t) ==
    LET required_operations == required
        optional_operations == optional
        all_operations == required_operations \o optional_operations
        n == Min(Len(all_operations), Len(events))
        mapped == {all_operations[i] : i \in 1..n}
        event_of(operation) == events[LastIndex(all_operations, n, operation)]
        device_mapping ==
            [device_key |-> device_key,
             required_operations |-> required_operations,
             optional_operations |-> optional_operations,
             codes |-> [operation \in mapped |->
                           Get(event_of(operation).analysis, "code", "unknown")],
             details |-> [operation \in mapped |->
                             OperationData(event_of(operation))],
             protocol |-> IF events # <<>>
                          THEN Get(events[1].analysis, "protocol", "unknown")
                          ELSE None,
             tx_device |-> IF events # <<>> THEN "raspberry_pi_ir" ELSE None,
             created_at |-> t,
             updated_at |-> t]
    IN  [k \in DOMAIN devs \cup {device_key} |->
            IF k = device_key THEN device_mapping ELSE devs[k]]

\* device_registry.py lines 116-130
load_device_mapping(devs, device_key) == Get(devs, device_key, None)

\* device_registry.py lines 132-150: device.get(f"{operation}_details")
get_device_operation_details(devs, device_key, operation) ==
    IF device_key \in DOMAIN devs
    THEN Get(devs[device_key].details, operation, None)
    ELSE None

InSeq(x, s) == \E i \in 1..Len(s) : s[i] = x

\* SubmitMappings.execute, submit_mappings.py lines 41-240: the operations
\* are mapped to the recent events in capture order when there are exactly
\* as many events as operations
SubmitMappings(device_key, required_operations, optional_operations, horizon_s) ==
    /\ main_pc = "idle"
    /\ calls < MaxCalls
    /\ calls' = calls + 1
    /\ LET recent_events == RecentEvents(ir_events, horizon_s, now)
           num_operations == Len(required_operations) + Len(optional_operations)
       IN  IF ~InSeq("power_on", required_operations)
              \/ ~InSeq("power_off", required_operations)
           THEN /\ observed' = [op |-> "submit_mappings", success |-> FALSE,
                                message |-> "missing required operations",
                                device_key |-> device_key,
                                required_operations |-> required_operations,
                                optional_operations |-> optional_operations,
                                horizon_s |-> horizon_s]
                /\ devices' = devices
           ELSE IF Len(recent_events) < num_operations
           THEN /\ observed' = [op |-> "submit_mappings", success |-> FALSE,
                                message |-> "not enough events",
                                device_key |-> device_key,
                                required_operations |-> required_operations,
                                optional_operations |-> optional_operations,
                                horizon_s |-> horizon_s]
                /\ devices' = devices
           ELSE IF Len(recent_events) > num_operations
           THEN /\ observed' = [op |-> "submit_mappings", success |-> FALSE,
                                message |-> "too many events",
                                device_key |-> device_key,
                                required_operations |-> required_operations,
                                optional_operations |-> optional_operations,
                                horizon_s |-> horizon_s]
                /\ devices' = devices
           ELSE /\ observed' = [op |-> "submit_mappings", success |-> TRUE,
                                message |-> "mapped",
                                device_key |-> device_key,
                                required_operations |-> required_operations,
                                optional_operations |-> optional_operations,
                                horizon_s |-> horizon_s]
                /\ devices' = save_device_mapping(devices, device_key,
                                  required_operations, optional_operations,
                                  recent_events, now)
    /\ UNCHANGED <<lvars, thvars, now, edges, line_level, script, pigpiod_up,
                   last_append_at, last_seal, skipped, txvars, nec_in, sample, trim_slice>>

\* SendIRCommand.execute, send_ir_command.py lines 39-142. Line 121 calls
\* the coroutine function ir_send without awaiting it: the arguments are
\* bound, no transmission runs, and unpacking the coroutine object raises
\* TypeError. No raw timing (None) is the empty sequence, as in NewCall
SendIRCommand(device_id, operation) ==
    /\ main_pc = "idle"
    /\ LET device_mapping == load_device_mapping(devices, device_id)
           operation_details ==
               get_device_operation_details(devices, device_id, operation)
       IN  IF device_id \notin DOMAIN devices
           THEN observed' = [op |-> "send_ir_command", called |-> FALSE,
                             success |-> FALSE, message |-> "device not found"]
           ELSE IF operation \notin DOMAIN device_mapping.codes
           THEN observed' = [op |-> "send_ir_command", called |-> FALSE,
                             success |-> FALSE,
                             message |-> "operation not available"]
           ELSE LET protocol == device_mapping.protocol
                    hex_code == device_mapping.codes[operation]
                    raw_timing_data ==
                        IF Lower(protocol) = "generic"
                           /\ operation \in DOMAIN device_mapping.details
                        THEN Get(operation_details, "raw_timing_data", <<>>)
                        ELSE <<>>
                IN  observed' = [op |-> "send_ir_command", called |-> TRUE,
                                 device_id |-> device_id,
                                 operation |-> operation,
                                 ir_send |-> [protocol |-> protocol,
                                              hex_code |-> hex_code,
                                              raw_timing_data |-> raw_timing_data],
                                 raised |-> "TypeError"]
    /\ UNCHANGED <<lvars, thvars, envvars, last_append_at, last_seal, skipped,
                   txvars, nec_in, devices, sample, trim_slice>>

\* the signals of the remote that is being learned, as the callback stores
\* them
LearnedSignals ==
    {<<<<"0", 9000>>, <<"1", 4500>>, <<"0", 560>>>>,
     <<<<"0", 2400>>, <<"1", 600>>>>,
     <<<<"0", 900>>, <<"1", 900>>, <<"0", 1800>>>>}

\* the event the seal stores for press i of n, the last one LearnPeriod ago
LearnedEvent(signals, i) ==
    LET t == (i - Len(signals) - 1) * LearnPeriod
    IN  MakeEvent(i, signals[i], analyze_signal(signals[i], i, t), t)

LearnedEvents(signals) == [i \in 1..Len(signals) |-> LearnedEvent(signals, i)]

RECURSIVE LearnedRecent(_, _)
\* the cache after the first k presses
LearnedRecent(signals, k) ==
    IF k = 0 THEN <<>>
    ELSE LET e == LearnedEvent(signals, k)
         IN  store_recent_signal(LearnedRecent(signals, k - 1), e.timing_data,
                                 e.analysis, e.timestamp)

\* the listener stopped after a session in which the signals were captured
Learned(signals) ==
    /\ is_listening = FALSE
    /\ callback = FALSE
    /\ ir_events = LearnedEvents(signals)
    /\ recent_signals = LearnedRecent(signals, Len(signals))
    /\ current_signal = <<>>
    /\ last_tick = NoTick
    /\ last_level = None
    /\ last_signal_time = 0
    /\ signal_counter = Len(signals)
    /\ completion_timer = NoTimer
    /\ enable_signal_matching = FALSE
    /\ signal_lock = "free"
    /\ timers = <<>>
    /\ next_timer = 1
    /\ cb_pc = "idle"
    /\ cb_edge = <<None, NoTick>>
    /\ main_pc = "idle"
    /\ seal_pc = "idle"
    /\ now = 0
    /\ edges = 0
    /\ line_level = "1"
    /\ calls = 0
    /\ observed = [op |-> None]
    /\ last_append_at = 0 - LearnPeriod
    /\ last_seal = [pulses |-> signals[Len(signals)],
                    counter_before |-> Len(signals) - 1,
                    events_before |-> Len(signals) - 1,
                    edges |-> 0, at |-> 0 - LearnPeriod]
    /\ skipped = FALSE
    /\ trim_slice = <<>>

InitRegistry ==
    /\ \E n \in 2..3 : \E signals \in [1..n -> LearnedSignals] : Learned(signals)
    /\ InitTx
    /\ script = <<>>
    /\ pigpiod_up = TRUE
    /\ nec_in = <<>>
    /\ devices = NoDevices
    /\ sample = NoSample

ShortHorizon == 3

NextRegistry ==
    \/ \E device_key \in {"fan", "tv"} :
       \E required_operations \in {<<"power_on", "power_off">>, <<"power_on">>} :
       \E optional_operations \in {<<>>, <<"speed_up">>, <<"power_on">>} :
       \E horizon_s \in {20, ShortHorizon} :
           SubmitMappings(device_key, required_operations, optional_operations,
                          horizon_s)
    \/ \E device_id \in {"fan", "tv"} :
       \E operation \in {"power_on", "power_off", "speed_up"} :
           SendIRCommand(device_id, operation)

SpecRegistry == InitRegistry /\ [][NextRegistry]_vars

\* the pulses of the stored event that save_device_mapping saved for the
\* operation of the device
SavedPulses(device_id, operation) ==
    LET number == devices[device_id].details[operation].signal_number
        i == CHOOSE i \in DOMAIN ir_events : ir_events[i].signal_number = number
    IN  ir_events[i].timing_data

\* C13: when SendIRCommand is executed for an operation of a device whose
\* mapping was learned from Generic events, the raw timing handed to ir_send
\* is the pulse sequence of the event that save_device_mapping saved for that
\* operation, never absent.
C13_SendHandsSavedRawTiming ==
    (observed.op = "send_ir_command" /\ observed.called
        /\ observed.ir_send.protocol = "Generic") =>
            /\ observed.ir_send.raw_timing_data # <<>>
            /\ observed.ir_send.raw_timing_data =
                   SavedPulses(observed.device_id, observed.operation)

----------------------------------------------------------------------------
(* The analysis as a function of its inputs: _analyze_signal applied to   *)
(* one pulse sequence at two sealings                                      *)

\* the pulses of an NEC frame carrying the four bytes, LSB first, as the
\* decoder expects them: 'low' marks and 'high' spaces
NecFrame(bytes) ==
    LET durations == <<9000, 4500>> \o NecFrameBits(bytes, 0) \o <<560>>
    IN  [i \in 1..Len(durations) |->
            <<IF i % 2 = 1 THEN "low" ELSE "high", durations[i]>>]

\* the pulses of the 12-bit frame _send_sony_command sends for the code
SonyFrame(ds) == EmittedPulses(send_sony_command(ds))

RECURSIVE SonyField(_, _, _, _)
\* bits off .. off + width - 1 of the code as an unsigned integer, bit off
\* being bit 0
SonyField(ds, off, width, k) ==
    IF k >= width THEN 0
    ELSE HexBit(ds, off + k) * Pow2(k) + SonyField(ds, off, width, k + 1)

NecByteSet == {0, 1, 254, 255}

SonyCodes == {<<0, 0, 0>>, <<10, 9, 0>>, <<0, 9, 5>>, <<15, 15, 15>>}

\* pulse sequences that are neither NEC nor Sony, levels as the callback
\* stores them and as 'low' / 'high'
GenericSignals ==
    LearnedSignals \cup
    {<<<<"low", 900>>, <<"high", 900>>, <<"low", 1800>>, <<"high", 900>>>>,
     <<<<"high", 3500>>, <<"low", 1700>>, <<"high", 450>>>>}

\* signal number and time (microseconds) of a seal
Sealings == {<<1, 200000>>, <<2, 500000>>, <<258, 565536>>}

Samples ==
    {[kind |-> "nec", timing_data |-> NecFrame(bytes), word |-> bytes,
      first |-> s1, second |-> s2] :
        bytes \in NecByteSet \X NecByteSet \X NecByteSet \X NecByteSet,
        s1 \in {<<1, 200000>>}, s2 \in {<<2, 500000>>}}
    \cup
    {[kind |-> "sony", timing_data |-> SonyFrame(ds), word |-> ds,
      first |-> s1, second |-> s2] :
        ds \in SonyCodes, s1 \in Sealings, s2 \in Sealings}
    \cup
    {[kind |-> "generic", timing_data |-> td, word |-> <<>>,
      first |-> s1, second |-> s2] :
        td \in GenericSignals, s1 \in Sealings, s2 \in Sealings}

\* _analyze_signal(timing_data, signal_number) called at two seals of the
\* same pulses
AnalyzeSignal ==
    /\ sample.kind # None
    /\ observed.op = None
    /\ observed' =
          [op |-> "analyze_signal",
           first |-> analyze_signal(sample.timing_data, sample.first[1],
                                    sample.first[2]),
           second |-> analyze_signal(sample.timing_data, sample.second[1],
                                     sample.second[2])]
    /\ UNCHANGED <<lvars, thvars, envvars, last_append_at, last_seal, skipped,
                   txvars, nec_in, devices, sample, trim_slice>>

InitAnalyze ==
    /\ InitListener
    /\ InitTx
    /\ script = <<>>
    /\ pigpiod_up = FALSE
    /\ nec_in = <<>>
    /\ devices = NoDevices
    /\ sample \in Samples

SpecAnalyze == InitAnalyze /\ [][AnalyzeSignal]_vars

\* C14: the Generic code and fingerprint are a function of the pulse sequence
\* alone: the same pulses sealed at two times under two signal numbers get
\* the same code and the same fingerprint.
C14_GenericCodeDependsOnPulsesOnly ==
    (observed.op = "analyze_signal"
        /\ observed.first.protocol = "Generic"
        /\ observed.second.protocol = "Generic") =>
            /\ observed.first.code = observed.second.code
            /\ observed.first.fingerprint = observed.second.fingerprint

\* C15: for every pulse sequence with a valid NEC header whose 32 data bits
\* all decode, the analysis is NEC with address = the first transmitted byte
\* and command = the third transmitted byte, and verified is true exactly
\* when the second byte is the bitwise inverse of the first and the fourth
\* the bitwise inverse of the third; a frame failing the check is still NEC.
C15_NecBytesAndVerified ==
    (observed.op = "analyze_signal" /\ sample.kind = "nec") =>
        /\ observed.first.protocol = "NEC"
        /\ observed.first.address = sample.word[1]
        /\ observed.first.command = sample.word[3]
        /\ observed.first.verified <=>
              /\ sample.word[2] = 255 - sample.word[1]
              /\ sample.word[4] = 255 - sample.word[3]

\* C16: the decoders run in the order NEC, Sony, Generic: a pulse sequence of
\* at least 24 pulses that is not NEC, with a first pulse in [2000, 2800] us
\* and valid Sony bit pulses, is analysed as Sony with command = the first 7
\* bits (bit 0 first) and address = the next 5 bits, not as Generic.
C16_SonyIsDecodedBeforeGeneric ==
    (observed.op = "analyze_signal" /\ sample.kind = "sony") =>
        /\ observed.first.protocol = "Sony"
        /\ observed.first.command = SonyField(sample.word, 0, 7, 0)
        /\ observed.first.address = SonyField(sample.word, 7, 5, 0)

----------------------------------------------------------------------------
(* A held button: a full NEC frame, silence, then the NEC repeat pattern   *)

\* the clock of the repeat scenario stops here, in microseconds
RepeatHorizon == 700000

\* the gaps between the edges of the repeat pattern: leading edge, 9000 us
\* mark, 2250 us space, 560 us mark
RepeatGaps == <<PulseGap, 9000, 2250, 560>>

\* the next edge of the script arrives; the repeat pattern starts only when
\* the frame before it was sealed as a signal of its own
FeedAfterSeal ==
    /\ script # <<>>
    /\ Len(script) = Len(RepeatGaps) => (Quiescent /\ Len(ir_events) = 1)
    /\ Edge(Head(script), Tail(script))

\* the line stays silent between the frame and the repeat pattern, and after
\* the repeat pattern
RepeatSilence ==
    /\ script = <<>> \/ Len(script) = Len(RepeatGaps)
    /\ now + TimeStep <= RepeatHorizon
    /\ now' = now + TimeStep
    /\ UNCHANGED <<lvars, thvars, edges, line_level, calls, script, pigpiod_up,
                   obsvars, txvars, nec_in, devices, sample, trim_slice>>

InitRepeat ==
    /\ InitListener
    /\ InitTx
    /\ pigpiod_up = TRUE
    /\ nec_in = <<0, 255>>
    /\ devices = NoDevices
    /\ sample = NoSample
    /\ script = NecFrameGaps(nec_in[1], nec_in[2]) \o RepeatGaps

NextRepeat ==
    \/ StartListening
    \/ StartClear
    \/ StartReset
    \/ StartCancelTimer
    \/ StartRegister
    \/ FeedAfterSeal
    \/ CbAppend
    \/ CbCancelTimer
    \/ CbCreateTimer
    \/ CbStartTimer
    \/ \E id \in DOMAIN timers : TimerFires(id)
    \/ \E id \in DOMAIN timers : TimerSeals(id)
    \/ SealTrim
    \/ RepeatSilence
    \/ ReadAfterSilence

SpecRepeat == InitRepeat /\ [][NextRepeat]_vars

\* the analysis classifies the signal as an NEC repeat, verified
IsNecRepeat(analysis) ==
    /\ analysis.protocol \in {"REPEAT", "NEC"}
    /\ "verified" \in DOMAIN analysis
    /\ analysis.verified

\* C17: when the 4-pulse NEC repeat pattern is captured as a separate signal
\* right after a full NEC frame, the store gains a second event, and that
\* event is classified as an NEC repeat with verified true.
C17_RepeatIsClassified ==
    observed.op = "get_recent_events" =>
        /\ Len(observed.events) = 2
        /\ IsNecRepeat(observed.events[2].analysis)

----------------------------------------------------------------------------
(* Claims about the lifetime of stored events *)

\* the step is the eviction of the oldest events by the capacity limit, or
\* the emptying of the store by clear_events
EvictsOrClears ==
    \/ seal_pc = "trim" /\ Len(ir_events) > max_events
    \/ main_pc = "idle" /\ main_pc' = "clear_counter"

\* C18: an event stays in the store until it is evicted by the capacity
\* limit or removed by clear_events: no other step, and so no stop_listening
\* followed by start_listening, makes the store lose an event.
C18_EventsSurviveRestart ==
    [][Len(ir_events') < Len(ir_events) => EvictsOrClears]_vars

----------------------------------------------------------------------------
(* clear_events while the listener captures *)

\* the clock of the clear_events runs stops here, in microseconds
ClearHorizon == 500000

\* the clock advances by TimeStep up to the horizon
ClockTick(horizon) ==
    /\ now + TimeStep <= horizon
    /\ now' = now + TimeStep
    /\ UNCHANGED <<lvars, thvars, edges, line_level, calls, script, pigpiod_up,
                   obsvars, txvars, nec_in, devices, sample, trim_slice>>

InitClear ==
    /\ InitListener
    /\ InitTx
    /\ script = <<>>
    /\ pigpiod_up = TRUE
    /\ nec_in = <<>>
    /\ devices = NoDevices
    /\ sample = NoSample

\* the listener is started once; edges arrive, timers seal, and clear_events
\* is called at any moment
NextClear ==
    \/ StartListening
    \/ StartClear
    \/ StartReset
    \/ StartCancelTimer
    \/ StartRegister
    \/ /\ edges < MaxEdges
       /\ EdgeArrives(PulseGap)
    \/ CbAppend
    \/ CbCancelTimer
    \/ CbCreateTimer
    \/ CbStartTimer
    \/ \E id \in DOMAIN timers : TimerFires(id)
    \/ \E id \in DOMAIN timers : TimerSeals(id)
    \/ SealTrim
    \/ ClearEvents
    \/ ClearCounter
    \/ ClockTick(ClearHorizon)

SpecClear == InitClear /\ [][NextClear]_vars

\* C19: when clear_events returns and no seal ran concurrently with it, the
\* event store is empty and the signal counter is 0; and a signal sealed
\* while the counter is 0 gets signal_number 1.
C19_ClearEmptiesAndResets ==
    [][/\ (main_pc = "clear_counter" /\ main_pc' = "idle"
              /\ ~observed'.concurrent_seal) =>
              /\ ir_events' = <<>>
              /\ signal_counter' = 0
       /\ (signal_counter = 0 /\ signal_counter' # 0) =>
              /\ signal_counter' = 1
              /\ ir_events'[Len(ir_events')].signal_number = 1]_vars

\* clear_events returned, no seal having run during it, from a store that
\* held an event, and the signal sealed next is number 1
C19_Witness ==
    /\ observed.op = "clear_events"
    /\ observed.returned
    /\ ~observed.concurrent_seal
    /\ observed.events_count > 0
    /\ observed.counter_at_call > 0
    /\ main_pc = "idle"
    /\ signal_counter = 1
    /\ Len(ir_events) = 1
    /\ ir_events[1].signal_number = 1

----------------------------------------------------------------------------
(* Claims about start_listening *)

\* the value start_listening returned when it found the listener listening
AlreadyRunning ==
    [op |-> "start_listening", ok |-> TRUE,
     message |-> "IR listener is already running."]

\* C20: start_listening called while the listener is already listening
\* returns success and leaves the event store, the signal counter, the
\* in-progress buffer, the registered callback and the armed silence timer
\* unchanged; the steps that set a listener up never run while it listens.
C20_StartWhileListeningChangesNothing ==
    /\ [](main_pc \in {"start_clear", "start_reset", "start_cancel",
                       "start_unset", "start_register"} => ~is_listening)
    /\ [][(is_listening /\ main_pc = "idle" /\ main_pc' = "idle"
              /\ calls' = calls + 1) =>
              /\ observed' = AlreadyRunning
              /\ UNCHANGED <<is_listening, ir_events, recent_signals,
                             signal_counter, current_signal, callback,
                             completion_timer, timers, last_tick, last_level>>]_vars

\* start_listening returned "already running" with an event in the store, a
\* pulse in the buffer and the silence timer armed
C20_Witness ==
    /\ observed = AlreadyRunning
    /\ is_listening
    /\ callback
    /\ ir_events # <<>>
    /\ current_signal # <<>>
    /\ ArmedTimers # {}
    /\ main_pc = "idle"

----------------------------------------------------------------------------
(* Claims about stop_listening *)

\* the value stop_listening returned when it found the listener stopped
NotRunning ==
    [op |-> "stop_listening", ok |-> TRUE,
     message |-> "IR listener is not running."]

\* the step is a return of stop_listening: its early return, or the end of
\* the reset under the lock
StopReturns ==
    /\ main_pc' = "idle"
    /\ observed'.op = "stop_listening"
    /\ \/ main_pc = "stop_reset"
       \/ main_pc = "idle" /\ calls' = calls + 1

----------------------------------------------------------------------------
(* start_listening with the pigpio daemon going down and coming back *)

\* the pigpiod service stops: pigpio.pi() (line 95) will not connect
DaemonStops ==
    /\ pigpiod_up
    /\ ~is_listening
    /\ main_pc = "idle"
    /\ pigpiod_up' = FALSE
    /\ UNCHANGED <<lvars, thvars, now, edges, line_level, calls, script, obsvars,
                   txvars, nec_in, devices, sample, trim_slice>>

\* the pigpiod service is started again
DaemonStarts ==
    /\ ~pigpiod_up
    /\ main_pc = "idle"
    /\ pigpiod_up' = TRUE
    /\ UNCHANGED <<lvars, thvars, now, edges, line_level, calls, script, obsvars,
                   txvars, nec_in, devices, sample, trim_slice>>

\* a stopped listener that holds the events of an earlier session
InitDaemon ==
    /\ \E n \in 2..3 : \E signals \in [1..n -> LearnedSignals] : Learned(signals)
    /\ InitTx
    /\ script = <<>>
    /\ pigpiod_up \in BOOLEAN
    /\ nec_in = <<>>
    /\ devices = NoDevices
    /\ sample = NoSample

NextDaemon ==
    \/ StartListening
    \/ StartClear
    \/ StartReset
    \/ StartCancelTimer
    \/ StartRegister
    \/ StopListening
    \/ StopCancelTimer
    \/ StopCallback
    \/ StopReset
    \/ DaemonStops
    \/ DaemonStarts

SpecDaemon == InitDaemon /\ [][NextDaemon]_vars

\* the value start_listening returned when pigpio.pi() did not connect
DaemonUnreachable ==
    [op |-> "start_listening", ok |-> FALSE, message |-> "pigpiod not running"]

\* C22: if the pigpio daemon is not connected, start_listening returns
\* failure with the remediation message in the same step, without another
\* connection attempt; is_listening stays false, no callback is registered,
\* and the event store and the signal counter are unchanged.
C22_DaemonDownStartFails ==
    [][(main_pc = "idle" /\ ~is_listening /\ ~pigpiod_up /\ calls' = calls + 1
           /\ ~(observed' = NotRunning /\ main_pc' = "idle")) =>
           /\ observed' = DaemonUnreachable
           /\ main_pc' = "idle"
           /\ ~is_listening'
           /\ ~callback'
           /\ UNCHANGED <<ir_events, recent_signals, signal_counter,
                          current_signal, completion_timer, timers>>]_vars

\* start_listening failed for want of the daemon with events in the store
C22_Witness ==
    /\ observed = DaemonUnreachable
    /\ ~pigpiod_up
    /\ ~is_listening
    /\ ~callback
    /\ ir_events # <<>>
    /\ signal_counter = Len(ir_events)
    /\ main_pc = "idle"

----------------------------------------------------------------------------
(* get_recent_events *)

\* a step in which get_recent_events returned
RecentReturns == observed'.op = "get_recent_events" /\ observed' # observed

\* C23: get_recent_events(h) returns exactly the stored events whose timestamp
\* lies within the last h seconds, oldest first, and leaves the store as it
\* was: the result is the tail of the store that starts at the first event
\* newer than the cutoff, and every event before that tail is older.
C23_RecentEventsAreTheNewTail ==
    [][RecentReturns =>
          LET returned == observed'.events
              cutoff == now - (observed'.horizon_s * 1000000)
              k == Len(ir_events) - Len(returned)
          IN  /\ k >= 0
              /\ returned = SubSeq(ir_events, k + 1, Len(ir_events))
              /\ \A i \in 1..k : ir_events[i].timestamp <= cutoff
              /\ \A i \in (k + 1)..Len(ir_events) : ir_events[i].timestamp > cutoff
              /\ \A i \in 1..(Len(returned) - 1) :
                     returned[i].timestamp <= returned[i + 1].timestamp
              /\ ir_events' = ir_events
              /\ UNCHANGED <<recent_signals, current_signal, signal_counter>>]_vars

\* a call returned some of the stored events and left older ones out
C23_Witness ==
    /\ observed.op = "get_recent_events"
    /\ observed.horizon_s = 60
    /\ observed.events # <<>>
    /\ Len(observed.events) < Len(ir_events)
    /\ observed.events[1].timestamp > now - 60000000
    /\ ir_events[1].timestamp <= now - 60000000

----------------------------------------------------------------------------
(* The noise filter of the callback *)

\* the callback takes up an edge that is closer than the floor to the last
\* accepted one
NoiseEdgeHandled ==
    /\ cb_pc = "enter"
    /\ cb_pc' # "enter"
    /\ last_tick # NoTick
    /\ tick_diff(last_tick, cb_edge[2]) < NOISE_FLOOR_US

\* C24: an edge that arrives less than 50 us after the last accepted edge
\* appends no pulse and leaves the last tick, the last level, the buffer,
\* the last-pulse time and the armed silence timer as they were.
C24_NoiseEdgeChangesNothing ==
    [][NoiseEdgeHandled =>
          /\ cb_pc' = "idle"
          /\ UNCHANGED <<current_signal, last_tick, last_level, last_signal_time,
                         completion_timer, timers, next_timer, signal_lock>>]_vars

\* a filtered edge behind a buffered pulse, with the silence timer still armed
C24_Witness ==
    /\ cb_pc = "idle"
    /\ cb_edge[2] # NoTick
    /\ last_tick # NoTick
    /\ cb_edge[2] # last_tick
    /\ tick_diff(last_tick, cb_edge[2]) < NOISE_FLOOR_US
    /\ current_signal # <<>>
    /\ completion_timer # NoTimer
    /\ completion_timer \in DOMAIN timers
    /\ timers[completion_timer].st = "armed"

----------------------------------------------------------------------------
(* A glitch on the line right before an NEC frame *)

GlitchWidth == 10
ShortLead == 20
LongLead == 100

\* the edges of the frame with a glitch in front: the line drops, comes back
\* GlitchWidth later, and the header mark starts `lead` after that
GlitchedGaps(address, command, lead) ==
    <<PulseGap, GlitchWidth, lead>> \o Tail(NecFrameGaps(address, command))

\* lines 196-218 on a stream without noise: one pulse between each edge and
\* the next, with the level reported at the earlier edge (the first edge
\* pulls the idle line to 0)
Captured(gaps) ==
    [i \in 1..(Len(gaps) - 1) |-> <<IF i % 2 = 1 THEN "0" ELSE "1", gaps[i + 1]>>]

InitGlitch ==
    /\ InitListener
    /\ InitTx
    /\ pigpiod_up = TRUE
    /\ nec_in = <<0, 255>>
    /\ devices = NoDevices
    /\ \E stream \in {NecFrameGaps(nec_in[1], nec_in[2])}
                         \cup {GlitchedGaps(nec_in[1], nec_in[2], lead) :
                                  lead \in {ShortLead, LongLead}} :
          /\ script = stream
          /\ sample = [kind |-> "edge_stream", gaps |-> stream]

SpecGlitch == InitGlitch /\ [][NextScenario]_vars

\* the fields of an analysis that name the signal
AnalysisKey(analysis) ==
    [protocol |-> Get(analysis, "protocol", None),
     address |-> Get(analysis, "address", None),
     command |-> Get(analysis, "command", None),
     verified |-> Get(analysis, "verified", None),
     code |-> Get(analysis, "code", None)]

\* C25: an edge stream with a single 10 us glitch right before a valid NEC
\* header produces one event whose protocol, address, command, verified and
\* code are those of the event produced by the stream without the glitch
\* (sealed under the same signal number at the same time).
C25_GlitchBeforeHeaderIsInvisible ==
    observed.op = "get_recent_events" =>
        /\ Len(observed.events) = 1
        /\ AnalysisKey(observed.events[1].analysis) =
               AnalysisKey(analyze_signal(
                   Captured(NecFrameGaps(nec_in[1], nec_in[2])),
                   observed.events[1].signal_number,
                   observed.events[1].timestamp))

----------------------------------------------------------------------------
(* The silence timer on an empty buffer *)

\* the function of a timer that fired runs while the buffer is empty
TimerRunsOnEmptyBuffer ==
    /\ current_signal = <<>>
    /\ \E id \in DOMAIN timers : timers[id].st = "fired" /\ id \notin DOMAIN timers'

\* C26: every stored event has at least one pulse, in every reachable state;
\* when the silence timer runs while the buffer is empty (after a seal, a
\* stop or a reset), no event is appended, the signal counter is unchanged
\* and the timer thread ends without entering the seal.
C26_NoEventWithoutPulses ==
    /\ [](\A i \in DOMAIN ir_events :
             /\ ir_events[i].timing_data # <<>>
             /\ ir_events[i].pulse_count >= 1)
    /\ [][TimerRunsOnEmptyBuffer =>
             /\ ir_events' = ir_events
             /\ signal_counter' = signal_counter
             /\ UNCHANGED <<recent_signals, current_signal, seal_pc, signal_lock,
                            is_listening, callback>>]_vars

\* after the reset of start_listening one edge armed the timer, no pulse was
\* buffered, and the timer has run: nothing stored, nothing counted
C26_Witness ==
    /\ calls = 1
    /\ is_listening
    /\ edges = 1
    /\ cb_pc = "idle"
    /\ main_pc = "idle"
    /\ seal_pc = "idle"
    /\ completion_timer # NoTimer
    /\ DOMAIN timers = {}
    /\ current_signal = <<>>
    /\ ir_events = <<>>
    /\ signal_counter = 0
    /\ now >= signal_timeout_us

----------------------------------------------------------------------------
(* A seal whose analysis raises *)

RaiseHorizon == 450000

\* the listener is started; edges arrive in bursts; the try block of a seal
\* may raise
NextRaise ==
    \/ StartListening
    \/ StartClear
    \/ StartReset
    \/ StartCancelTimer
    \/ StartRegister
    \/ /\ edges < MaxEdges
       /\ EdgeArrives(PulseGap)
    \/ CbAppend
    \/ CbCancelTimer
    \/ CbCreateTimer
    \/ CbStartTimer
    \/ \E id \in DOMAIN timers : TimerFires(id)
    \/ \E id \in DOMAIN timers : TimerSeals(id)
    \/ SealTrim
    \/ \E id \in DOMAIN timers : TimerSealsRaw(id)
    \/ SealClear
    \/ ClockTick(RaiseHorizon)

SpecRaise == InitClear /\ [][NextRaise]_vars

\* a seal begins: the timer thread enters the try block, which completes
\* ("trim") or raises ("raw")
SealBegins == seal_pc = "idle" /\ seal_pc' \in {"trim", "raw"}

\* C27: if the analysis of a sealed signal raises, the listener stays
\* listening, the signal is still stored as an event of its own (with its
\* pulses, under the next signal number), the buffer is emptied, and the
\* burst that follows is captured from an empty buffer and sealed as a
\* separate event.
C27_RaisingAnalysisLosesNothing ==
    /\ [][SealBegins =>
             /\ is_listening'
             /\ Len(ir_events') = Len(ir_events) + 1
             /\ SubSeq(ir_events', 1, Len(ir_events)) = ir_events
             /\ ir_events'[Len(ir_events')].timing_data = current_signal
             /\ ir_events'[Len(ir_events')].signal_number = signal_counter + 1
             /\ signal_counter' = signal_counter + 1
             /\ (seal_pc' = "raw") =
                    (ir_events'[Len(ir_events')].analysis.protocol = "Raw")]_vars
    /\ [][(seal_pc = "raw" /\ seal_pc' # "raw") =>
             /\ current_signal' = <<>>
             /\ signal_lock' = "free"
             /\ seal_pc' = "idle"
             /\ UNCHANGED <<is_listening, callback, ir_events, signal_counter>>]_vars
    /\ [](\A i \in DOMAIN ir_events : \A j \in DOMAIN ir_events :
             i < j => ir_events[i].signal_number < ir_events[j].signal_number)

\* the first seal raised, the listener went on, and the next burst was sealed
\* as the second event
C27_Witness ==
    /\ Len(ir_events) = 2
    /\ ir_events[1].analysis.protocol = "Raw"
    /\ ir_events[2].analysis.protocol = "Generic"
    /\ ir_events[1].timing_data # <<>>
    /\ ir_events[2].timing_data # <<>>
    /\ ir_events[2].timestamp > ir_events[1].timestamp
    /\ is_listening
    /\ callback
    /\ current_signal = <<>>
    /\ seal_pc = "idle"

----------------------------------------------------------------------------
(* Signals too short for a decoder *)

\* frames cut short: the first n pulses of NEC and Sony frames, with the
\* levels the decoder looks for and with the levels the callback stores
ShortSignals ==
    {Take(frame, n) :
        frame \in {NecFrame(<<0, 255, 255, 0>>), NecFrame(<<255, 0, 1, 254>>),
                   Captured(NecFrameGaps(0, 255)), SonyFrame(<<10, 9, 0>>)},
        n \in 1..(NEC_MIN_PULSES - 1)}
    \cup {<<<<"0", 300>>>>, <<<<"0", 300>>, <<"1", 600>>>>, <<<<"low", 560>>>>}

ShortSamples ==
    {[kind |-> "short", timing_data |-> td, word |-> <<>>,
      first |-> <<1, 200000>>, second |-> <<2, 500000>>] : td \in ShortSignals}

InitShort ==
    /\ InitListener
    /\ InitTx
    /\ script = <<>>
    /\ pigpiod_up = FALSE
    /\ nec_in = <<>>
    /\ devices = NoDevices
    /\ sample \in ShortSamples

SpecShort == InitShort /\ [][AnalyzeSignal]_vars

\* the analysis of a pulse sequence too short for a decoder
IsFallback(analysis, timing_data) ==
    /\ analysis.protocol = (IF SumDur(timing_data) < 1000 THEN "Noise" ELSE "Generic")
    /\ "error" \notin DOMAIN analysis
    /\ "address" \notin DOMAIN analysis
    /\ "command" \notin DOMAIN analysis

\* C28: for every non-empty pulse sequence with fewer pulses than the
\* decoders require, the analysis is Generic or Noise (Noise when the pulses
\* add up to less than 1 ms); it is never NEC or Sony and never an error.
C28_ShortSignalsFallBack ==
    (observed.op = "analyze_signal" /\ sample.kind = "short") =>
        /\ sample.timing_data # <<>>
        /\ Len(sample.timing_data) < NEC_MIN_PULSES
        /\ IsFallback(observed.first, sample.timing_data)
        /\ IsFallback(observed.second, sample.timing_data)

\* a frame with a valid NEC header and 31 further pulses was analysed
C28_Witness ==
    /\ observed.op = "analyze_signal"
    /\ sample.kind = "short"
    /\ Len(sample.timing_data) = NEC_MIN_PULSES - 1
    /\ sample.timing_data[1] = <<"low", 9000>>
    /\ sample.timing_data[2] = <<"high", 4500>>
    /\ observed.first.protocol = "Generic"

----------------------------------------------------------------------------
(* Signal matching *)

MatchGap == 300000
MatchHorizon == 450000

\* lines 72-77: set_signal_matching(enabled)
SetSignalMatching(enabled) ==
    /\ main_pc = "idle"
    /\ enable_signal_matching' = enabled
    /\ observed' = [op |-> "set_signal_matching", enabled |-> enabled,
                    returned |-> IF enabled THEN "Signal pattern matching enabled"
                                 ELSE "Signal pattern matching disabled"]
    /\ UNCHANGED <<is_listening, callback, ir_events, recent_signals,
                   current_signal, last_tick, last_level, last_signal_time,
                   signal_counter, completion_timer, signal_lock, thvars, envvars,
                   last_append_at, last_seal, skipped, txvars, nec_in, devices,
                   sample, trim_slice>>

\* the seven pulses between the eight edges of one press of a button, and
\* of a press of another button
BurstPulses ==
    <<<<"0", 900>>, <<"1", 900>>, <<"0", 1800>>, <<"1", 900>>, <<"0", 900>>,
      <<"1", 1800>>, <<"0", 900>>>>

NearBurstPulses ==
    <<<<"0", 950>>, <<"1", 900>>, <<"0", 1800>>, <<"1", 850>>, <<"0", 900>>,
      <<"1", 1800>>, <<"0", 950>>>>

OtherBurstPulses ==
    <<<<"0", 2400>>, <<"1", 600>>, <<"0", 1200>>, <<"1", 600>>, <<"0", 600>>,
      <<"1", 600>>, <<"0", 1200>>>>

\* lines 196-207: a burst captured after an earlier one begins with the pulse
\* that spans the idle time since the last edge of that one
LaterBurst(gap, pulses) == <<<<"1", gap>>>> \o pulses

\* the two signals sealed before: the first press after start_listening,
\* sealed signal_timeout_us after its last edge, and a second press MatchGap
\* after the first, sealed at time 0
PriorSignal(i) == IF i = 1 THEN BurstPulses ELSE LaterBurst(MatchGap, BurstPulses)

PriorTime(i) == IF i = 1 THEN 0 - (MatchGap + SumDur(BurstPulses)) ELSE 0

PriorEvent(i) ==
    MakeEvent(i, PriorSignal(i), analyze_signal(PriorSignal(i), i, PriorTime(i)),
              PriorTime(i))

RECURSIVE PriorRecent(_)
PriorRecent(k) ==
    IF k = 0 THEN <<>>
    ELSE store_recent_signal(PriorRecent(k - 1), PriorSignal(k),
                             PriorEvent(k).analysis, PriorTime(k))

\* a listening listener that sealed two presses with matching off and has
\* just buffered the last pulse of a third press, its timer armed
InitMatch ==
    /\ \E pulses \in {BurstPulses, NearBurstPulses, OtherBurstPulses} :
          current_signal = LaterBurst(MatchGap, pulses)
    /\ now = (MatchGap - signal_timeout_us) + SumDur(BurstPulses)
    /\ ir_events = <<PriorEvent(1), PriorEvent(2)>>
    /\ recent_signals = PriorRecent(2)
    /\ signal_counter = 2
    /\ is_listening = TRUE
    /\ callback = TRUE
    /\ last_tick = HwTick(now)
    /\ last_level = "1"
    /\ line_level = "1"
    /\ last_signal_time = now
    /\ last_append_at = now
    /\ last_seal = [pulses |-> PriorSignal(2), counter_before |-> 1,
                    events_before |-> 1, edges |-> 0, at |-> 0]
    /\ completion_timer = 1
    /\ next_timer = 2
    /\ timers = [id \in {1} |-> [st |-> "armed", deadline |-> now + signal_timeout_us]]
    /\ enable_signal_matching = FALSE
    /\ signal_lock = "free"
    /\ cb_pc = "idle"
    /\ cb_edge = <<None, NoTick>>
    /\ main_pc = "idle"
    /\ seal_pc = "idle"
    /\ edges = 0
    /\ calls = 0
    /\ script = <<>>
    /\ observed = [op |-> None]
    /\ skipped = FALSE
    /\ pigpiod_up = TRUE
    /\ nec_in = <<>>
    /\ devices = NoDevices
    /\ sample = NoSample
    /\ trim_slice = <<>>
    /\ InitTx

NextMatch ==
    \/ \E enabled \in BOOLEAN : SetSignalMatching(enabled)
    \/ /\ edges < MaxEdges
       /\ EdgeArrives(PulseGap)
    \/ CbAppend
    \/ CbCancelTimer
    \/ CbCreateTimer
    \/ CbStartTimer
    \/ \E id \in DOMAIN timers : TimerFires(id)
    \/ \E id \in DOMAIN timers : TimerSeals(id)
    \/ SealTrim
    \/ ClockTick(MatchHorizon)

SpecMatch == InitMatch /\ [][NextMatch]_vars

\* C29: signal matching is off unless set_signal_matching(True) was called;
\* while it is off, the analysis stored with an event is the analysis of that
\* event's own pulses, carries no mark of a match, and the analyses of the
\* events stored before are left as they are.
C29_MatchingOffKeepsOwnAnalysis ==
    /\ [](enable_signal_matching =>
             (observed.op = "set_signal_matching" /\ observed.enabled))
    /\ [][(seal_pc = "idle" /\ seal_pc' = "trim" /\ ~enable_signal_matching) =>
             LET event == ir_events'[Len(ir_events')]
             IN  /\ Len(ir_events') = Len(ir_events) + 1
                 /\ SubSeq(ir_events', 1, Len(ir_events)) = ir_events
                 /\ event.timing_data = current_signal
                 /\ event.analysis = analyze_signal(current_signal,
                                                    signal_counter + 1, now)
                 /\ "matched_previous" \notin DOMAIN event.analysis]_vars

\* with matching never switched on, a press whose pulses match those of the
\* press before it was sealed with an analysis of its own
C29_Witness ==
    /\ observed.op = None
    /\ ~enable_signal_matching
    /\ Len(ir_events) = 3
    /\ ir_events[3].timing_data = ir_events[2].timing_data
    /\ find_matching_signal(PriorRecent(2), ir_events[3].timing_data,
                            ir_events[3].timestamp).protocol # None
    /\ ir_events[3].analysis.signal_number = 3
    /\ ir_events[3].analysis # ir_events[2].analysis
    /\ "matched_previous" \notin DOMAIN ir_events[3].analysis

----------------------------------------------------------------------------
(* SubmitMappings: what is saved, and when *)

\* a step in which SubmitMappings.execute returned
SubmitReturns == observed'.op = "submit_mappings" /\ calls' = calls + 1

\* C30: SubmitMappings saves a device mapping only when required_operations
\* holds both power_on and power_off and the events within the horizon are
\* as many as the required plus optional operations; it then binds the k-th
\* oldest of these events to the k-th operation of required followed by
\* optional; in every other case it reports failure and saves nothing.
C30_SubmitBindsInOrderOrFails ==
    [][SubmitReturns =>
          LET device_key == observed'.device_key
              all_operations == observed'.required_operations
                                    \o observed'.optional_operations
              cutoff == now - (observed'.horizon_s * 1000000)
              within == SelectSeq(ir_events, LAMBDA e : e.timestamp > cutoff)
              accepted == /\ InSeq("power_on", observed'.required_operations)
                          /\ InSeq("power_off", observed'.required_operations)
                          /\ Len(within) = Len(all_operations)
          IN  IF accepted
              THEN /\ observed'.success
                   /\ device_key \in DOMAIN devices'
                   /\ \A k \in DOMAIN all_operations :
                        /\ all_operations[k] \in DOMAIN devices'[device_key].codes
                        /\ devices'[device_key].codes[all_operations[k]] =
                               Get(within[k].analysis, "code", "unknown")
                        /\ devices'[device_key].details[all_operations[k]].signal_number
                               = within[k].signal_number
                        /\ devices'[device_key].details[all_operations[k]].timing_data
                               = within[k].timing_data
                   /\ \A other \in DOMAIN devices \ {device_key} :
                        other \in DOMAIN devices' /\ devices'[other] = devices[other]
              ELSE /\ ~observed'.success
                   /\ devices' = devices]_vars

----------------------------------------------------------------------------
(* The carrier between the repeats of ir_send *)

\* the call sends an NEC frame, a Sony frame, or raw timing as generic
SendsKnownProtocol(r) ==
    \/ Lower(r.protocol) \in {"nec", "sony"}
    \/ Lower(r.protocol) = "generic" /\ r.raw_timing_data # <<>>

\* C31: whenever ir_send is pausing between two repeats, and when it has
\* returned success, the last duty cycle commanded on the output pin is 0,
\* for nec, sony and generic with raw timing (no GPIO call having failed).
C31_CarrierOffBetweenRepeats ==
    \A c \in DOMAIN tx :
        (/\ SendsKnownProtocol(tx[c])
         /\ tx[c].faults = 0
         /\ \/ tx[c].pc = "gap"
            \/ tx[c].pc = "done" /\ tx[c].result.success) => pin_duty = 0

----------------------------------------------------------------------------
(* NEC frames with one data-bit pair out of range *)

\* an NEC frame whose data bit k (1..32) has its low pulse (part = 1) or its
\* high pulse (part = 2) at 1000 us, outside [300, 800] and [1200, 2200]
BadBitFrame(bytes, k, part) ==
    LET frame == NecFrame(bytes)
    IN  [i \in DOMAIN frame |->
            IF i = (2 * k) + part THEN <<frame[i][1], 1000>> ELSE frame[i]]

BadBitSamples ==
    {[kind |-> "bad_bit", timing_data |-> BadBitFrame(<<0, 255, 1, 254>>, k, part),
      word |-> <<k, part>>, first |-> <<1, 200000>>, second |-> <<2, 500000>>] :
        k \in 1..32, part \in {1, 2}}

InitBadBit ==
    /\ InitListener
    /\ InitTx
    /\ script = <<>>
    /\ pigpiod_up = FALSE
    /\ nec_in = <<>>
    /\ devices = NoDevices
    /\ sample \in BadBitSamples

SpecBadBit == InitBadBit /\ [][AnalyzeSignal]_vars

\* C32: if any of the 32 data-bit pulse pairs of a sequence with an NEC
\* header is out of range, NEC decoding is aborted and the sequence is not
\* reported as NEC.
C32_BadBitAbortsNec ==
    (observed.op = "analyze_signal" /\ sample.kind = "bad_bit") =>
        /\ observed.first.protocol # "NEC"
        /\ observed.second.protocol # "NEC"

----------------------------------------------------------------------------
(* One NEC frame of _send_nec_command *)

\* 32-bit codes as eight hexadecimal digit values, most significant first
FrameCodes == [1..8 -> {0, 6, 15}]

\* _send_nec_command(pi, tx_pin, int(code, 16), duty): the marks and spaces
\* of one frame, in order
SendNecFrame ==
    /\ observed.op = None
    /\ sample.kind = "code"
    /\ observed' = [op |-> "send_nec", code |-> sample.digits,
                    frame |-> send_nec_command(sample.digits)]
    /\ UNCHANGED <<lvars, thvars, envvars, last_append_at, last_seal, skipped,
                   txvars, nec_in, devices, sample, trim_slice>>

InitFrame ==
    /\ InitListener
    /\ InitTx
    /\ script = <<>>
    /\ pigpiod_up = FALSE
    /\ nec_in = <<>>
    /\ devices = NoDevices
    /\ sample \in {[kind |-> "code", digits |-> ds] : ds \in FrameCodes}

SpecFrame == InitFrame /\ [][SendNecFrame]_vars

\* bit b (1 = most significant, 32 = least significant) of the 32-bit code
\* written as the eight hexadecimal digits ds
CodeBitMsb(ds, b) == Bit(ds[((b - 1) \div 4) + 1], 3 - ((b - 1) % 4))

\* C33: for every 32-bit code, one NEC frame commands exactly 67 intervals:
\* a 9000 us mark, a 4500 us space, for each of the 32 bits (most significant
\* first) a 560 us mark and a 1690 us space for a 1 or a 560 us space for a
\* 0, then a final 560 us mark.
C33_NecFrameIntervals ==
    observed.op = "send_nec" =>
        /\ Len(observed.frame) = 67
        /\ observed.frame[1] = <<"mark", 9000>>
        /\ observed.frame[2] = <<"space", 4500>>
        /\ \A b \in 1..32 :
              /\ observed.frame[(2 * b) + 1] = <<"mark", 560>>
              /\ observed.frame[(2 * b) + 2] =
                    <<"space",
                      IF CodeBitMsb(observed.code, b) = 1 THEN 1690 ELSE 560>>
        /\ observed.frame[67] = <<"mark", 560>>

C33_Witness ==
    /\ observed.op = "send_nec"
    /\ observed.code = <<15, 6, 0, 0, 6, 15, 15, 0>>
    /\ observed.frame[4] = <<"space", 1690>>
    /\ observed.frame[66] = <<"space", 560>>

----------------------------------------------------------------------------
(* The fallback of IRListenerManager._tick_diff *)

\* (tick + d) modulo 2^32, on <<high, low>> halves
TickPlus(tick, d) ==
    LET low == tick[2] + d[2]
        high == tick[1] + d[1] + (low \div 65536)
    IN  <<high % 65536, low % 65536>>

\* abs(diff) for diff = high * 65536 + low with a signed high half
AbsHalves(high, low) ==
    IF high >= 0 THEN <<high, low>>
    ELSE IF low = 0 THEN <<0 - high, 0>>
    ELSE <<(0 - high) - 1, 65536 - low>>

\* a difference that is not corrected for the wrap of the counter
tick_diff_unwrapped(tick1, tick2) ==
    LET low == tick2[2] - tick1[2]
        borrow == IF low < 0 THEN 1 ELSE 0
    IN  AbsHalves(tick2[1] - tick1[1] - borrow, low + (65536 * borrow))

\* lines 355-363: diff = tick2 - tick1, plus 2^32 below -2^31, minus 2^32
\* above 2^31 - 1, then abs(diff); the result as <<high, low>> halves
tick_diff_fallback(tick1, tick2) ==
    LET low == tick2[2] - tick1[2]
        borrow == IF low < 0 THEN 1 ELSE 0
        high == tick2[1] - tick1[1] - borrow
        wrapped == IF high < 0 - 32768 THEN high + 65536
                   ELSE IF high > 32767 THEN high - 65536
                   ELSE high
    IN  AbsHalves(wrapped, low + (65536 * borrow))

\* previous ticks and elapsed times below 2^31 around the 16-bit and the
\* 32-bit boundaries
TickSamples ==
    {[kind |-> "ticks", tick1 |-> <<h1, l1>>, elapsed |-> <<hd, ld>>] :
        h1 \in {0, 1, 32767, 32768, 65535}, l1 \in {0, 1, 65535},
        hd \in {0, 1, 32766, 32767}, ld \in {0, 1, 65535}}

\* one pulse measured by the fallback: the edge at tick1 and the next one
\* `elapsed` microseconds later
FallbackTickDiff ==
    /\ observed.op = None
    /\ sample.kind = "ticks"
    /\ observed' =
          [op |-> "tick_diff", tick1 |-> sample.tick1,
           tick2 |-> TickPlus(sample.tick1, sample.elapsed),
           elapsed |-> sample.elapsed,
           duration |-> tick_diff_fallback(sample.tick1,
                            TickPlus(sample.tick1, sample.elapsed))]
    /\ UNCHANGED <<lvars, thvars, envvars, last_append_at, last_seal, skipped,
                   txvars, nec_in, devices, sample, trim_slice>>

InitTicks ==
    /\ InitListener
    /\ InitTx
    /\ script = <<>>
    /\ pigpiod_up = FALSE
    /\ nec_in = <<>>
    /\ devices = NoDevices
    /\ sample \in TickSamples

SpecTicks == InitTicks /\ [][FallbackTickDiff]_vars

\* C34: for every previous tick t1 and every elapsed time d with
\* 0 <= d < 2^31, the fallback tick difference of t1 and (t1 + d) mod 2^32
\* equals d, also when the counter wrapped between the two edges.
C34_FallbackTickDiff ==
    observed.op = "tick_diff" => observed.duration = observed.elapsed

\* the counter wrapped: the later tick is the smaller number
C34_Witness ==
    /\ observed.op = "tick_diff"
    /\ observed.tick1 = <<65535, 65535>>
    /\ observed.tick2 = <<32767, 65534>>
    /\ observed.duration = <<32767, 65535>>

----------------------------------------------------------------------------
(* Claims about codes that are not hexadecimal *)

\* protocol nec or sony, a code int(hex_code, 16) rejects, no raw timing
BadHexCode(r) ==
    /\ Lower(r.protocol) \in {"nec", "sony"}
    /\ ~r.hex_code.valid
    /\ r.raw_timing_data = <<>>

\* C35: ir_send with protocol nec or sony and a code that is not a
\* hexadecimal number, with no raw timing data, returns failure, and at no
\* point during the call is a non-zero duty cycle commanded on the pin.
C35_BadHexCodeFails ==
    \A c \in DOMAIN tx :
        BadHexCode(tx[c]) =>
            /\ ~tx[c].carrier_used
            /\ tx[c].pc = "done" => ~tx[c].result.success

\* all five attempts ran without a GPIO fault and the call returned
C35_Witness ==
    \E c \in DOMAIN tx :
        /\ BadHexCode(tx[c])
        /\ tx[c].pc = "done"
        /\ tx[c].attempt = REPEAT_COUNT - 1
        /\ tx[c].faults = 0
        /\ ~tx[c].result.success
        /\ pin_duty = 0

----------------------------------------------------------------------------
(* Replay of an event's timing data as the listener stored it *)

\* edge streams of short signals: the gap before the first edge, then the
\* time from each edge to the next
ReplayStreams ==
    {<<PulseGap, 9000, 4500, 560>>,
     <<PulseGap, 2400, 600, 1200, 600, 600>>}

\* ir_send('generic', code, raw_timing_data = event['timing_data'])
ReplayArgs ==
    {[protocol |-> "generic", hex_code |-> h,
      raw_timing_data |-> Captured(gaps), power_boost |-> b] :
        h \in HexCodes, gaps \in ReplayStreams, b \in BOOLEAN}

InitReplay ==
    /\ InitListener
    /\ pigpiod_up = TRUE
    /\ script = <<>>
    /\ nec_in = <<>>
    /\ devices = NoDevices
    /\ sample = NoSample
    /\ tx \in [{1} -> {NewCall(a) : a \in ReplayArgs}]
    /\ pin_duty = 0
    /\ pin_owner = [call |-> 0, kind |-> None]

SpecReplay == InitReplay /\ [][NextSend]_vars

\* C36: replaying the timing data of an event exactly as the listener stored
\* it switches the carrier on for exactly the pulses that were captured at
\* low level and off for the pulses captured at high level.
C36_ReplayFollowsCapturedLevels ==
    \A c \in DOMAIN tx :
        LET r == tx[c]
        IN  (r.pc = "asleep" /\ r.pos <= Len(r.raw_timing_data)) =>
                ((pin_duty > 0) <=> (r.raw_timing_data[r.pos][1] = "0"))

----------------------------------------------------------------------------
(* Claims about the idle gap between two signals *)

\* C37: every pulse of every stored event is shorter than the silence
\* timeout (200 ms): the idle gap between the last edge of one signal and the
\* first edge of the next is never recorded as a pulse of the later signal.
C37_NoIdleGapPulse ==
    \A i \in 1..Len(ir_events) :
        \A k \in 1..Len(ir_events[i].timing_data) :
            ir_events[i].timing_data[k][2] < signal_timeout_us

----------------------------------------------------------------------------
(* clear_events against the eviction of a running seal *)

\* line 323, right-hand side: with more than max_events events the timer
\* thread builds the list without the oldest tenth
SealSlice ==
    /\ seal_pc = "trim"
    /\ Len(ir_events) > max_events
    /\ trim_slice' = SubSeq(ir_events, (max_events \div 10) + 1, Len(ir_events))
    /\ seal_pc' = "rebind"
    /\ UNCHANGED <<lvars, timers, next_timer, cb_pc, cb_edge, main_pc, envvars,
                   obsvars, txvars, nec_in, devices, sample>>

\* line 323, the assignment: self._ir_events is bound to that list; then the
\* buffer is cleared (line 343) and the lock released
SealRebind ==
    /\ seal_pc = "rebind"
    /\ ir_events' = trim_slice
    /\ trim_slice' = <<>>
    /\ current_signal' = <<>>
    /\ signal_lock' = "free"
    /\ seal_pc' = "idle"
    /\ UNCHANGED <<is_listening, callback, recent_signals, last_tick, last_level,
                   last_signal_time, signal_counter, completion_timer,
                   enable_signal_matching, timers, next_timer, cb_pc, cb_edge,
                   main_pc, envvars, obsvars, txvars, nec_in, devices, sample>>

\* a store at its limit, one more signal, and clear_events at any moment
NextClearStore ==
    \/ /\ edges < StoreEdges
       /\ EdgeArrives(PulseGap)
    \/ CbAppend
    \/ CbCancelTimer
    \/ CbCreateTimer
    \/ CbStartTimer
    \/ \E id \in DOMAIN timers : TimerFires(id)
    \/ \E id \in DOMAIN timers : TimerSeals(id)
    \/ /\ Len(ir_events) <= max_events
       /\ SealTrim
    \/ SealSlice
    \/ SealRebind
    \/ ClearEvents
    \/ ClearCounter
    \/ Tick(TimeStep)

SpecClearStore == InitStore /\ [][NextClearStore]_vars

\* C38: under every interleaving of clear_events with a seal running on the
\* timer thread (including a seal that triggers the batch eviction), once
\* clear_events has returned the store holds no event that was appended
\* before clear_events was called, that is none stamped earlier than the
\* call.
C38_ClearedEventsStayGone ==
    (observed.op = "clear_events" /\ observed.returned) =>
        \A i \in 1..Len(ir_events) :
            ir_events[i].timestamp >= observed.called_at

----------------------------------------------------------------------------
(* Claims about the store of a stopped listener *)

\* no call is running on the event-loop thread and the listener does not
\* listen: stop_listening has returned (or the listener was never started)
\* and start_listening has not been called since
ListenerStopped ==
    /\ ~is_listening
    /\ main_pc = "idle"

----------------------------------------------------------------------------
(* A remote whose buttons are analysed as different protocols *)

\* the signals of two buttons as the callback stores them: one of 3 ms and
\* one shorter than the 1 ms below which _analyze_signal answers Noise
MixedSignals ==
    {<<<<"0", 2400>>, <<"1", 600>>>>,
     <<<<"0", 400>>, <<"1", 300>>>>}

InitMixed ==
    /\ \E n \in 2..3 : \E signals \in [1..n -> MixedSignals] : Learned(signals)
    /\ InitTx
    /\ script = <<>>
    /\ pigpiod_up = TRUE
    /\ nec_in = <<>>
    /\ devices = NoDevices
    /\ sample = NoSample

SpecMixed == InitMixed /\ [][NextRegistry]_vars

\* C40: for every operation of a saved device mapping, SendIRCommand
\* transmits with the protocol of the event that was captured for that
\* operation, also when the events of one mapping were analysed as different
\* protocols.
C40_SendUsesOperationProtocol ==
    (observed.op = "send_ir_command" /\ observed.called) =>
        observed.ir_send.protocol =
            devices[observed.device_id].details[observed.operation].protocol

=============================================================================
